---- MODULE Spec2Model ----
(***************************************************************************)
(* FinSense-AI: the ingestion pipeline (src/src/ingestion.py), the index   *)
(* manager (src/src/embeddings.py) and the retrieval router                *)
(* (src/src/retrieval.py), with the metadata contract of                   *)
(* src/src/llm_chain.py.                                                   *)
(*                                                                         *)
(* A Python str is a sequence of one-character strings, so that lower(),   *)
(* strip(), replace() and the substring test `in` are computed, not        *)
(* assumed.  A DataFrame is [cols, rows]: the headers in order and the     *)
(* rows as sequences of cells, one cell per header.  A cell is a record    *)
(* tagged by k: "null" (None/NaN/NaT), "str", "num" (a float, in           *)
(* hundredths), "ts" (a Timestamp, as yyyymmdd) or "bool".                 *)
(***************************************************************************)
EXTENDS Integers, Sequences, FiniteSets, TLC

VARIABLES
    \* ingestion: the uploaded table, the result of parse_and_clean_csv on it, the
    \* result of parse_and_clean_csv on that result's table, and how far this got
    raw, first, second, ipc,
    \* the Streamlit session: st.session_state['processed'], ['df_clean'], ['summary']
    processed, df_clean, summary,
    \* EmbeddingManager.vector_store: [init, docs], init FALSE for None
    vector_store,
    \* the last question asked and what its handler did: the locals of retrieve at
    \* its return (or the exception it raised) and the outcome of answer_with_docs
    question, result,
    \* create_embeddings: its data, batch_size and persist_path arguments, the loop
    \* index i, and where the call and the save_vector_store after it stand
    data, batch_size, persist_path, batch_i, xpc,
    \* the disk: the directory at the canonical path and the one at <path>.tmp
    canon, tmp,
    \* the last save_vector_store call: whether it raised, and the canonical
    \* directory and the store's documents when it was entered
    last_save

ingestVars == <<raw, first, second, ipc>>

sessionVars == <<processed, df_clean, summary, question, result>>

indexVars == <<vector_store, data, batch_size, persist_path, batch_i, xpc, canon, tmp, last_save>>

vars == <<raw, first, second, ipc, processed, df_clean, summary, question, result,
          vector_store, data, batch_size, persist_path, batch_i, xpc, canon, tmp, last_save>>

(***************************************************************************)
(* Bounds of the model.                                                    *)
(***************************************************************************)
\* longest enumerated input table, in rows
MaxRows == 2
\* largest batch_size create_embeddings is called with
MaxBatch == 2
\* largest number of records handed to create_embeddings
MaxRecords == 3

(***************************************************************************)
(* Python str operations.                                                  *)
(***************************************************************************)
UpperChars == <<"A","B","C","D","E","F","G","H","I","J","K","L","M","N","O","P","Q","R","S","T","U","V","W","X","Y","Z">>

LowerChars == <<"a","b","c","d","e","f","g","h","i","j","k","l","m","n","o","p","q","r","s","t","u","v","w","x","y","z">>

Digits == <<"0","1","2","3","4","5","6","7","8","9">>

\* index of c in seq, 0 when absent
IndexOf(c, seq) == IF \E i \in 1..Len(seq) : seq[i] = c
                   THEN CHOOSE i \in 1..Len(seq) : seq[i] = c /\ \A j \in 1..(i-1) : seq[j] # c
                   ELSE 0

LowerChar(c) == IF IndexOf(c, UpperChars) > 0 THEN LowerChars[IndexOf(c, UpperChars)] ELSE c

\* str.lower()
str_lower(s) == [i \in 1..Len(s) |-> LowerChar(s[i])]

IsSpace(c) == c = " "

\* str.strip()
str_strip(s) ==
    IF \A i \in 1..Len(s) : IsSpace(s[i]) THEN <<>>
    ELSE LET a == CHOOSE i \in 1..Len(s) : ~IsSpace(s[i]) /\ \A j \in 1..(i-1) : IsSpace(s[j])
             b == CHOOSE i \in 1..Len(s) : ~IsSpace(s[i]) /\ \A j \in (i+1)..Len(s) : IsSpace(s[j])
         IN SubSeq(s, a, b)

\* s.startswith(p) at offset i (0-based)
MatchesAt(p, s, i) == i + Len(p) <= Len(s) /\ SubSeq(s, i + 1, i + Len(p)) = p

\* the Python test `p in s`
str_in(p, s) == \E i \in 0..(Len(s) - Len(p)) : MatchesAt(p, s, i)

RECURSIVE ReplaceFrom(_, _, _, _)
ReplaceFrom(s, old, new, i) ==
    IF i > Len(s) THEN <<>>
    ELSE IF MatchesAt(old, s, i - 1)
         THEN new \o ReplaceFrom(s, old, new, i + Len(old))
         ELSE <<s[i]>> \o ReplaceFrom(s, old, new, i + 1)

\* str.replace(old, new) for a non-empty old: leftmost, non-overlapping
str_replace(s, old, new) == ReplaceFrom(s, old, new, 1)

\* any(p in s for p in patterns), patterns a sequence
AnyIn(patterns, s) == \E i \in 1..Len(patterns) : str_in(patterns[i], s)

(***************************************************************************)
(* Cells and their conversions.                                            *)
(***************************************************************************)
\* None, NaN and NaT: what pd.isna answers True for
Null == [k |-> "null"]

StrCell(s) == [k |-> "str", s |-> s]

\* a finite float, in hundredths
NumCell(n) == [k |-> "num", n |-> n]

\* float('inf') and float('-inf'); sign is 1 or -1
InfCell(sign) == [k |-> "inf", sign |-> sign]

\* a pandas Timestamp at midnight, as yyyymmdd
TsCell(d) == [k |-> "ts", d |-> d]

BoolCell(b) == [k |-> "bool", b |-> b]

isna(v) == v.k = "null"

AllDigits(s) == \A i \in 1..Len(s) : \E j \in 1..10 : Digits[j] = s[i]

DigitVal(c) == IndexOf(c, Digits) - 1

RECURSIVE DigitsToInt(_)
DigitsToInt(s) == IF s = <<>> THEN 0
                  ELSE DigitsToInt(SubSeq(s, 1, Len(s) - 1)) * 10 + DigitVal(s[Len(s)])

RECURSIVE IntToStr(_)
IntToStr(n) == IF n < 10 THEN <<Digits[n + 1]>>
               ELSE IntToStr(n \div 10) \o <<Digits[(n % 10) + 1]>>

\* the digits of a hundredths a >= 0: one decimal, or two when the second is not 0
FormatAbs(a) ==
    IntToStr(a \div 100) \o <<".">>
    \o (IF a % 10 = 0 THEN <<Digits[((a % 100) \div 10) + 1]>>
        ELSE <<Digits[((a % 100) \div 10) + 1], Digits[(a % 10) + 1]>>)

\* str(float): the shortest repr
FormatFloat(n) == IF n < 0 THEN <<"-">> \o FormatAbs(-n) ELSE FormatAbs(n)

\* str(Timestamp) of a midnight timestamp
FormatTs(d) ==
    IntToStr(d \div 10000)
    \o <<"-", Digits[((d \div 1000) % 10) + 1], Digits[((d \div 100) % 10) + 1]>>
    \o <<"-", Digits[((d \div 10) % 10) + 1], Digits[(d % 10) + 1]>>
    \o <<" ","0","0",":","0","0",":","0","0">>

\* str(v)
py_str(v) ==
    CASE v.k = "str" -> v.s
      [] v.k = "num" -> FormatFloat(v.n)
      [] v.k = "inf" -> IF v.sign < 0 THEN <<"-","i","n","f">> ELSE <<"i","n","f">>
      [] v.k = "ts" -> FormatTs(v.d)
      [] v.k = "bool" -> IF v.b THEN <<"T","r","u","e">> ELSE <<"F","a","l","s","e">>
      [] OTHER -> <<"n","a","n">>

\* digits, a point at position dot (0: none), digits: [ok, n]
UnsignedAt(s, dot) ==
    IF /\ \A i \in 1..Len(s) : i = dot \/ \E j \in 1..10 : Digits[j] = s[i]
       /\ Len(s) >= (IF dot = 0 THEN 1 ELSE 2)
    THEN [ok |-> TRUE,
          n |-> DigitsToInt(SubSeq(s, 1, IF dot = 0 THEN Len(s) ELSE dot - 1)) * 100
                + (IF dot > 0 /\ Len(s) > dot THEN DigitVal(s[dot + 1]) * 10 ELSE 0)
                + (IF dot > 0 /\ Len(s) > dot + 1 THEN DigitVal(s[dot + 2]) ELSE 0)]
    ELSE [ok |-> FALSE, n |-> 0]

\* the digits-and-point part of a float literal: [ok, n]
ParseUnsigned(s) == UnsignedAt(s, IndexOf(".", s))

\* the float of an unsigned literal body, low its lower case
FloatOfBody(neg, low, u) ==
    IF low \in {<<"i","n","f">>, <<"i","n","f","i","n","i","t","y">>} THEN [ok |-> TRUE, v |-> InfCell(IF neg THEN -1 ELSE 1)]
    ELSE IF low = <<"n","a","n">> THEN [ok |-> TRUE, v |-> Null]
    ELSE IF u.ok THEN [ok |-> TRUE, v |-> NumCell(IF neg THEN -u.n ELSE u.n)]
    ELSE [ok |-> FALSE, v |-> Null]

\* the float of a stripped literal
FloatOfStripped(t, body) == FloatOfBody(Len(t) >= 1 /\ t[1] = "-", str_lower(body), ParseUnsigned(body))

SkipSign(t) == IF Len(t) >= 1 /\ t[1] \in {"-", "+"} THEN SubSeq(t, 2, Len(t)) ELSE t

\* float(s): [ok, v]; ok FALSE is ValueError.  Literals carry at most two
\* decimals and no exponent in the modelled inputs.
py_float(s) == FloatOfStripped(str_strip(s), SkipSign(str_strip(s)))

DaysIn(y, m) ==
    IF m = 2 THEN (IF (y % 4 = 0 /\ y % 100 # 0) \/ y % 400 = 0 THEN 29 ELSE 28)
    ELSE IF m \in {4, 6, 9, 11} THEN 30 ELSE 31

\* the Timestamp of year, month, day, or NaT
DateOf(y, m, d) ==
    IF m \in 1..12 /\ d \in 1..DaysIn(y, m) /\ y >= 1900
    THEN TsCell(y * 10000 + m * 100 + d) ELSE Null

\* an ISO yyyy-mm-dd string as a Timestamp, anything else as NaT
ParseIsoDate(s) ==
    IF /\ Len(s) = 10 /\ s[5] = "-" /\ s[8] = "-"
       /\ \A i \in {1, 2, 3, 4, 6, 7, 9, 10} : \E j \in 1..10 : Digits[j] = s[i]
    THEN DateOf(DigitsToInt(SubSeq(s, 1, 4)), DigitsToInt(SubSeq(s, 6, 7)),
                DigitsToInt(SubSeq(s, 9, 10)))
    ELSE Null

\* a month-first mm/dd/yyyy string as a Timestamp, anything else as NaT
ParseUsDate(s) ==
    IF /\ Len(s) = 10 /\ s[3] = "/" /\ s[6] = "/"
       /\ \A i \in {1, 2, 4, 5, 7, 8, 9, 10} : \E j \in 1..10 : Digits[j] = s[i]
    THEN DateOf(DigitsToInt(SubSeq(s, 7, 10)), DigitsToInt(SubSeq(s, 1, 2)),
                DigitsToInt(SubSeq(s, 4, 5)))
    ELSE Null

\* a date string in either of the two layouts; the columns of the modelled
\* tables hold one layout each
ParseDate(s) == IF ParseIsoDate(s).k = "ts" THEN ParseIsoDate(s) ELSE ParseUsDate(s)

\* one value of pd.to_datetime(..., errors='coerce'): a Timestamp stays, an
\* ISO yyyy-mm-dd or a month-first mm/dd/yyyy string parses, a number is
\* nanoseconds after the epoch, anything else is NaT
to_datetime_value(v) ==
    CASE v.k = "ts" -> v
      [] v.k = "num" -> TsCell(19700101)
      [] v.k = "str" -> ParseDate(str_strip(v.s))
      [] OTHER -> Null

(***************************************************************************)
(* DataFrames.                                                             *)
(***************************************************************************)
DataFrame(cols, rows) == [cols |-> cols, rows |-> rows]

\* pd.DataFrame()
EmptyFrame == [cols |-> <<>>, rows |-> <<>>]

HasCol(df, name) == \E c \in 1..Len(df.cols) : df.cols[c] = name

\* df[name], as the sequence of its cells
Column(df, name) == [r \in 1..Len(df.rows) |-> df.rows[r][IndexOf(name, df.cols)]]

\* df[name] = vals: in place when the column exists, appended otherwise
SetColumn(df, name, vals) ==
    IF \E c \in 1..Len(df.cols) : df.cols[c] = name
    THEN [cols |-> df.cols,
          rows |-> [r \in 1..Len(df.rows) |->
                       [c \in 1..Len(df.cols) |->
                           IF df.cols[c] = name /\ \A j \in 1..(c-1) : df.cols[j] # name
                           THEN vals[r] ELSE df.rows[r][c]]]]
    ELSE [cols |-> Append(df.cols, name),
          rows |-> [r \in 1..Len(df.rows) |-> Append(df.rows[r], vals[r])]]

\* df.rename(columns={old: new})
RenameCol(df, old, new) ==
    [cols |-> [c \in 1..Len(df.cols) |-> IF df.cols[c] = old THEN new ELSE df.cols[c]],
     rows |-> df.rows]

RECURSIVE KeptIndices(_, _, _)
\* the indices i..n not in drop, ascending
KeptIndices(n, i, drop) ==
    IF i > n THEN <<>>
    ELSE (IF i \in drop THEN <<>> ELSE <<i>>) \o KeptIndices(n, i + 1, drop)

\* the elements of seq at the indices keep
Pick(seq, keep) == [i \in 1..Len(keep) |-> seq[keep[i]]]

\* df.drop(columns=names)
DropCols(df, names) ==
    [cols |-> Pick(df.cols, KeptIndices(Len(df.cols), 1,
                                        {c \in 1..Len(df.cols) : df.cols[c] \in names})),
     rows |-> [r \in 1..Len(df.rows) |->
                  Pick(df.rows[r], KeptIndices(Len(df.cols), 1,
                                               {c \in 1..Len(df.cols) : df.cols[c] \in names}))]]

\* df.dropna(subset=names).reset_index(drop=True)
dropna(df, names) ==
    [cols |-> df.cols,
     rows |-> Pick(df.rows,
                   KeptIndices(Len(df.rows), 1,
                               {r \in 1..Len(df.rows) :
                                   \E c \in 1..Len(df.cols) :
                                       df.cols[c] \in names /\ df.rows[r][c].k = "null"}))]

\* the first n elements of seq
FirstN(seq, n) == SubSeq(seq, 1, IF Len(seq) < n THEN Len(seq) ELSE n)

\* series.dropna().head(n)
NonNullHead(vals, n) ==
    FirstN(Pick(vals, KeptIndices(Len(vals), 1, {i \in 1..Len(vals) : vals[i].k = "null"})), n)

\* the kinds of the values of a column that are not missing
Kinds(vals) == {vals[i].k : i \in {j \in 1..Len(vals) : vals[j].k # "null"}}

\* series.dtype == 'object': the non-missing values are not all floats, not
\* all timestamps and not all booleans
IsObjectDtype(vals) ==
    /\ \E i \in 1..Len(vals) : vals[i].k \notin {"null", "num", "inf"}
    /\ \E i \in 1..Len(vals) : vals[i].k \notin {"null", "ts"}
    /\ \E i \in 1..Len(vals) : vals[i].k \notin {"null", "bool"}

\* at least 80% of the elements of a non-empty sample satisfy Test
MostlyIs(sample, Test(_)) ==
    /\ Len(sample) > 0
    /\ Cardinality({i \in 1..Len(sample) : Test(sample[i])}) * 5 >= Len(sample) * 4

(***************************************************************************)
(* ingestion.py                                                            *)
(***************************************************************************)
\* _is_safe_csv: len(df) > 100000
MaxCsvRows == 100000

\* _is_safe_csv: len(df.columns) > 50
MaxCsvCols == 50

\* _is_safe_csv: len(df.columns) < 2
MinCsvCols == 2

\* _is_safe_csv: df.head(min(10, len(df)))
SafetySampleRows == 10

_normalize_column_names(df) ==
    [cols |-> [c \in 1..Len(df.cols) |->
                  str_replace(str_lower(str_strip(df.cols[c])), <<" ">>, <<"_">>)],
     rows |-> df.rows]

\* dangerous_patterns, scanned in the headers
dangerous_patterns ==
    << <<"j","a","v","a","s","c","r","i","p","t",":">>, <<"<","s","c","r","i","p","t">>, <<"o","n","e","r","r","o","r","=">>, <<"o","n","c","l","i","c","k","=">>,
       <<"o","n","l","o","a","d","=">>, <<"e","v","a","l","(">>, <<"e","x","e","c","(">>, <<"_","_","i","m","p","o","r","t","_","_">>, <<"s","y","s","t","e","m","(">> >>

\* one list for both scans: the header list used for the cells too
patterns_for_cells ==
    << <<"j","a","v","a","s","c","r","i","p","t",":">>, <<"<","s","c","r","i","p","t">>, <<"o","n","e","r","r","o","r","=">>, <<"o","n","c","l","i","c","k","=">>,
       <<"o","n","l","o","a","d","=">>, <<"e","v","a","l","(">>, <<"e","x","e","c","(">>, <<"_","_","i","m","p","o","r","t","_","_">>, <<"s","y","s","t","e","m","(">> >>

\* dangerous_content, scanned in the sampled cells
dangerous_content ==
    << <<"<","s","c","r","i","p","t">>, <<"j","a","v","a","s","c","r","i","p","t",":">>, <<"o","n","e","r","r","o","r","=">>, <<"o","n","c","l","i","c","k","=">>,
       <<"o","n","l","o","a","d","=">>, <<"<","i","f","r","a","m","e">>, <<"e","v","a","l","(">>, <<"e","x","e","c","(">> >>

\* _is_safe_csv: [ok, msg]
_is_safe_csv(df) ==
    IF Len(df.rows) = 0 THEN [ok |-> FALSE, msg |-> "CSV file is empty"]
    ELSE IF Len(df.rows) > MaxCsvRows
         THEN [ok |-> FALSE, msg |-> "CSV file too large (max 100,000 rows)"]
    ELSE IF Len(df.cols) > MaxCsvCols THEN [ok |-> FALSE, msg |-> "Too many columns (max 50)"]
    ELSE IF Len(df.cols) < MinCsvCols
         THEN [ok |-> FALSE, msg |-> "Too few columns (minimum 2 required)"]
    ELSE IF \E c \in 1..Len(df.cols) : AnyIn(dangerous_patterns, str_lower(df.cols[c]))
         THEN [ok |-> FALSE, msg |-> "Potentially dangerous column name"]
    ELSE IF \E r \in 1..Len(df.rows) : \E c \in 1..Len(df.cols) :
              /\ r <= SafetySampleRows
              /\ df.rows[r][c].k # "null"
              /\ AnyIn(dangerous_content, str_lower(py_str(df.rows[r][c])))
         THEN [ok |-> FALSE, msg |-> "Potentially malicious content detected"]
    ELSE [ok |-> TRUE, msg |-> ""]

\* the first alias, in list order, that is a header: [found, col]
FirstAlias(aliases, cols) ==
    IF \E i \in 1..Len(aliases) : \E c \in 1..Len(cols) : cols[c] = aliases[i]
    THEN [found |-> TRUE,
          col |-> aliases[CHOOSE i \in 1..Len(aliases) :
                              /\ \E c \in 1..Len(cols) : cols[c] = aliases[i]
                              /\ \A j \in 1..(i-1) : \A c \in 1..Len(cols) : cols[c] # aliases[j]]]
    ELSE [found |-> FALSE, col |-> <<>>]

\* the first header, in table order, whose position satisfies Test: [found, col]
FirstColumn(cols, Test(_)) ==
    IF \E c \in 1..Len(cols) : Test(c)
    THEN [found |-> TRUE,
          col |-> cols[CHOOSE c \in 1..Len(cols) : Test(c) /\ \A j \in 1..(c-1) : ~Test(j)]]
    ELSE [found |-> FALSE, col |-> <<>>]

\* an alias match when there is one, the first sniffed column otherwise
AliasOrElse(a, sniffed) == IF a.found THEN a ELSE sniffed

date_aliases ==
    << <<"d","a","t","e">>, <<"t","r","a","n","s","a","c","t","i","o","n","_","d","a","t","e">>, <<"t","r","a","n","s","_","d","a","t","e">>, <<"p","o","s","t","i","n","g","_","d","a","t","e">>,
       <<"v","a","l","u","e","_","d","a","t","e">>, <<"e","f","f","e","c","t","i","v","e","_","d","a","t","e">>, <<"s","t","a","t","e","m","e","n","t","_","d","a","t","e">>, <<"p","r","o","c","e","s","s","_","d","a","t","e">>,
       <<"d","a","t","e","_","p","o","s","t","e","d">>, <<"t","r","a","n","s","a","c","t","i","o","n","_","d","t">>, <<"t","r","a","n","s","_","d","t">> >>

amount_aliases ==
    << <<"a","m","o","u","n","t">>, <<"t","r","a","n","s","a","c","t","i","o","n","_","a","m","o","u","n","t">>, <<"t","r","a","n","s","_","a","m","o","u","n","t">>, <<"v","a","l","u","e">>,
       <<"d","e","b","i","t">>, <<"c","r","e","d","i","t">>, <<"d","e","b","i","t","_","a","m","o","u","n","t">>, <<"c","r","e","d","i","t","_","a","m","o","u","n","t">>,
       <<"w","i","t","h","d","r","a","w","a","l">>, <<"d","e","p","o","s","i","t">>, <<"p","a","y","m","e","n","t">>, <<"c","h","a","r","g","e">>,
       <<"w","i","t","h","d","r","a","w","a","l","s","_","a","n","d","_","o","t","h","e","r","_","s","u","b","t","r","a","c","t","i","o","n","s">>, <<"d","e","p","o","s","i","t","s","_","a","n","d","_","o","t","h","e","r","_","a","d","d","i","t","i","o","n","s">> >>

merchant_aliases ==
    << <<"m","e","r","c","h","a","n","t">>, <<"d","e","s","c","r","i","p","t","i","o","n">>, <<"t","r","a","n","s","a","c","t","i","o","n","_","d","e","s","c","r","i","p","t","i","o","n">>, <<"t","r","a","n","s","_","d","e","s","c","r","i","p","t","i","o","n">>,
       <<"v","e","n","d","o","r">>, <<"p","a","y","e","e">>, <<"s","t","o","r","e">>, <<"s","h","o","p">>, <<"b","u","s","i","n","e","s","s">>, <<"l","o","c","a","t","i","o","n">>,
       <<"m","e","r","c","h","a","n","t","_","n","a","m","e">>, <<"s","t","o","r","e","_","n","a","m","e">>, <<"t","r","a","n","s","a","c","t","i","o","n","_","d","e","t","a","i","l","s">>, <<"d","e","t","a","i","l","s">>,
       <<"d","e","s","c">>, <<"t","r","a","n","s","a","c","t","i","o","n">>, <<"n","a","m","e">>, <<"c","o","u","n","t","e","r","p","a","r","t","y">>, <<"b","e","n","e","f","i","c","i","a","r","y">>,
       <<"a","c","c","o","u","n","t","_","n","a","m","e">> >>

IsDate(v) == to_datetime_value(v).k # "null"

\* the 5-row sample of a text column parses as dates for at least 80%
DateLike(vals) == IsObjectDtype(vals) /\ MostlyIs(NonNullHead(vals, 5), IsDate)

_infer_date_column(df) ==
    AliasOrElse(FirstAlias(date_aliases, df.cols),
                FirstColumn(df.cols, LAMBDA c : DateLike(Column(df, df.cols[c]))))

\* re.sub(r'[^\d.\-]', '', s)
KeepNumeric(s) ==
    SelectSeq(s, LAMBDA c : c \in {".", "-", "0", "1", "2", "3", "4", "5", "6", "7", "8", "9"})

\* pd.to_numeric(..., errors='coerce') of a string is a number
IsNumeric(f) == f.ok /\ f.v.k # "null"

IsNumberLike(v) == IsNumeric(py_float(KeepNumeric(py_str(v))))

\* the 10-row sample of a column, non-numeric characters stripped, is numeric for
\* at least 80%
AmountLike(vals) == MostlyIs(NonNullHead(vals, 10), IsNumberLike)

_infer_amount_column(df) ==
    AliasOrElse(FirstAlias(amount_aliases, df.cols),
                FirstColumn(df.cols,
                            LAMBDA c : /\ df.cols[c] \notin {<<"d","a","t","e">>, <<"t","r","a","n","s","a","c","t","i","o","n","_","d","a","t","e">>}
                                       /\ AmountLike(Column(df, df.cols[c]))))

_infer_merchant_column(df) ==
    AliasOrElse(FirstAlias(merchant_aliases, df.cols),
                FirstColumn(df.cols,
                            LAMBDA c : /\ df.cols[c] \notin {<<"d","a","t","e">>, <<"a","m","o","u","n","t">>}
                                       /\ IsObjectDtype(Column(df, df.cols[c]))))

\* the currency symbols and codes clean_value removes, in order; the cedi, euro
\* and pound signs are written by code point
\* a cleaner that also strips the decimal point
currency_tokens_and_point ==
    << <<"$">>, <<"U+20B5">>, <<"g", "h", "U+20B5">>, <<"g","h","s">>, <<"u","s","d">>, <<"g","h","c">>, <<"e","u","r">>,
       <<"U+20AC">>, <<"U+00A3">>, <<"g","b","p">>, <<",">>, <<" ">>, <<".">> >>

currency_tokens ==
    << <<"$">>, <<"U+20B5">>, <<"g", "h", "U+20B5">>, <<"g","h","s">>, <<"u","s","d">>, <<"g","h","c">>, <<"e","u","r">>,
       <<"U+20AC">>, <<"U+00A3">>, <<"g","b","p">>, <<",">>, <<" ">> >>

RECURSIVE StripTokens(_, _)
\* for ch in [...]: s = s.lower().replace(ch, '')
StripTokens(s, i) ==
    IF i > Len(currency_tokens) THEN s
    ELSE StripTokens(str_replace(str_lower(s), currency_tokens[i], <<>>), i + 1)

na_markers == {<<"n","a">>, <<"n","/","a">>, <<"n","u","l","l">>, <<"n","o","n","e">>}

\* the inner except of clean_value: float(s2), None when it raises
FallbackFloat(f2) == IF f2.ok THEN f2.v ELSE Null

\* the try / except of clean_value on the stripped text s: float(s), else the
\* float of what re.sub leaves (s2)
FloatOrFallback(f, s2) ==
    IF f.ok THEN f.v
    ELSE IF s2 \in {<<>>, <<".">>, <<"-">>} THEN Null
    ELSE FallbackFloat(py_float(s2))

ParseCleaned(s) == FloatOrFallback(py_float(s), KeepNumeric(s))

\* parentheses taken as plain brackets: the content without a sign
Unbracket(s) ==
    IF Len(s) >= 1 /\ s[1] = "(" /\ s[Len(s)] = ")"
    THEN SubSeq(s, 2, Len(s) - 1) ELSE s

\* a value fully wrapped in parentheses is negative
Unparenthesize(s) ==
    IF Len(s) >= 1 /\ s[1] = "(" /\ s[Len(s)] = ")"
    THEN <<"-">> \o SubSeq(s, 2, Len(s) - 1) ELSE s

\* clean_value on the stripped string of a value that is not missing
CleanText(s) ==
    IF s = <<>> \/ str_lower(s) \in na_markers THEN Null
    ELSE ParseCleaned(StripTokens(Unparenthesize(s), 1))

\* clean_value: a float cell, or Null for None
clean_value(v) == IF v.k = "null" THEN Null ELSE CleanText(str_strip(py_str(v)))

_clean_amount_column(vals) == [i \in 1..Len(vals) |-> clean_value(vals[i])]

\* a - b on floats; inf - inf is NaN
FloatSub(a, b) ==
    CASE a.k = "null" \/ b.k = "null" -> Null
      [] a.k = "num" /\ b.k = "num" -> NumCell(a.n - b.n)
      [] a.k = "inf" /\ b.k = "inf" -> IF a.sign = b.sign THEN Null ELSE a
      [] a.k = "inf" -> a
      [] OTHER -> InfCell(-b.sign)

\* a + b on floats
FloatAdd(a, b) ==
    CASE a.k = "null" \/ b.k = "null" -> Null
      [] a.k = "num" /\ b.k = "num" -> NumCell(a.n + b.n)
      [] a.k = "inf" /\ b.k = "inf" -> IF a.sign = b.sign THEN a ELSE Null
      [] a.k = "inf" -> a
      [] OTHER -> b

\* v < 0 on a float
IsNegative(v) == (v.k = "num" /\ v.n < 0) \/ (v.k = "inf" /\ v.sign < 0)

fillna(v, d) == IF v.k = "null" THEN d ELSE v

\* df['credit'].fillna(0) - df['debit'].fillna(0)
CreditMinusDebit(debit, credit) ==
    [r \in 1..Len(debit) |-> FloatSub(fillna(credit[r], NumCell(0)), fillna(debit[r], NumCell(0)))]

\* a merge that leaves an amount column of the table as it is
merge_unless_amount(df) ==
    IF HasCol(df, <<"d","e","b","i","t">>) /\ HasCol(df, <<"c","r","e","d","i","t">>) /\ ~HasCol(df, <<"a","m","o","u","n","t">>)
    THEN DropCols(SetColumn(df, <<"a","m","o","u","n","t">>,
                            CreditMinusDebit(_clean_amount_column(Column(df, <<"d","e","b","i","t">>)),
                                             _clean_amount_column(Column(df, <<"c","r","e","d","i","t">>)))),
                  {<<"d","e","b","i","t">>, <<"c","r","e","d","i","t">>})
    ELSE DropCols(df, {<<"d","e","b","i","t">>, <<"c","r","e","d","i","t">>})

_merge_debit_credit(df) ==
    IF HasCol(df, <<"d","e","b","i","t">>) /\ HasCol(df, <<"c","r","e","d","i","t">>)
    THEN DropCols(SetColumn(df, <<"a","m","o","u","n","t">>,
                            CreditMinusDebit(_clean_amount_column(Column(df, <<"d","e","b","i","t">>)),
                                             _clean_amount_column(Column(df, <<"c","r","e","d","i","t">>)))),
                  {<<"d","e","b","i","t">>, <<"c","r","e","d","i","t">>})
    ELSE df

unknown_merchant == <<"u","n","k","n","o","w","n","_","m","e","r","c","h","a","n","t">>

\* an empty merchant left empty
KeepEmpty(m) == StrCell(m)

\* .replace('', 'unknown_merchant')
OrUnknown(m) == StrCell(IF m = <<>> THEN unknown_merchant ELSE m)

\* a merchant cleaner that keeps the case
CleanMerchantCased(v) == OrUnknown(str_strip(py_str(fillna(v, StrCell(unknown_merchant)))))

\* fillna('unknown_merchant').astype(str).str.strip().str.lower().replace('', ...)
CleanMerchant(v) == OrUnknown(str_lower(str_strip(py_str(fillna(v, StrCell(unknown_merchant))))))

RECURSIVE InsertByDate(_, _, _)
\* row placed after every row of sorted whose date is not later (a stable insertion)
InsertByDate(sorted, row, d) ==
    IF sorted = <<>> THEN <<row>>
    ELSE IF sorted[Len(sorted)][d].d <= row[d].d THEN Append(sorted, row)
    ELSE Append(InsertByDate(SubSeq(sorted, 1, Len(sorted) - 1), row, d), sorted[Len(sorted)])

RECURSIVE SortRows(_, _)
SortRows(rows, d) ==
    IF rows = <<>> THEN <<>>
    ELSE InsertByDate(SortRows(SubSeq(rows, 1, Len(rows) - 1), d), rows[Len(rows)], d)

\* df.sort_values(by='date').reset_index(drop=True); NumPy sorts the fewer than 17
\* rows of the modelled tables by insertion, which keeps equal dates in order
sort_values_by_date(df) ==
    [cols |-> df.cols, rows |-> SortRows(df.rows, IndexOf(<<"d","a","t","e">>, df.cols))]

RECURSIVE FloatSum(_)
FloatSum(vals) == IF vals = <<>> THEN NumCell(0)
                  ELSE FloatAdd(FloatSum(SubSeq(vals, 1, Len(vals) - 1)), vals[Len(vals)])

\* the else branch of the summary, from the date, amount and is_suspicious
\* columns of the sorted table; avg_amount is the exact quotient [num, den]
SummaryOf(original_count, dates, total, flags) ==
    [total_rows |-> original_count,
     valid_rows |-> Len(dates),
     invalid_rows |-> original_count - Len(dates),
     total_transactions |-> Len(dates),
     total_amount |-> total,
     avg_amount |-> [num |-> total, den |-> Len(dates)],
     suspicious_count |-> Cardinality({r \in 1..Len(flags) : flags[r].b}),
     \* sorted by date: min is the first row's, max the last row's
     date_range |-> [start |-> StrCell(py_str(dates[1])),
                     end |-> StrCell(py_str(dates[Len(dates)]))]]

\* the summary computed as for a table with rows, whatever its length: the
\* mean and the date range of no row are NaN and NaT
SummaryWithoutEmptyCase(df, original_count) ==
    IF Len(df.rows) = 0
    THEN [total_rows |-> original_count,
          valid_rows |-> 0,
          invalid_rows |-> original_count,
          total_transactions |-> 0,
          total_amount |-> NumCell(0),
          avg_amount |-> [num |-> Null, den |-> 1],
          suspicious_count |-> 0,
          date_range |-> [start |-> StrCell(<<"N","a","T">>), end |-> StrCell(<<"N","a","T">>)]]
    ELSE SummaryOf(original_count, Column(df, <<"d","a","t","e">>), FloatSum(Column(df, <<"a","m","o","u","n","t">>)),
                   Column(df, <<"i","s","_","s","u","s","p","i","c","i","o","u","s">>))

\* the summary dict of parse_and_clean_csv
BuildSummary(df, original_count) ==
    IF Len(df.rows) = 0
    THEN [total_rows |-> original_count,
          valid_rows |-> 0,
          invalid_rows |-> original_count,
          total_transactions |-> 0,
          total_amount |-> NumCell(0),
          avg_amount |-> [num |-> NumCell(0), den |-> 1],
          suspicious_count |-> 0,
          date_range |-> [start |-> Null, end |-> Null]]
    ELSE SummaryOf(original_count, Column(df, <<"d","a","t","e">>), FloatSum(Column(df, <<"a","m","o","u","n","t">>)),
                   Column(df, <<"i","s","_","s","u","s","p","i","c","i","o","u","s">>))

NoSummary == [total_rows |-> 0]

Raised(msg) == [ok |-> FALSE, error |-> msg, df |-> EmptyFrame, summary |-> NoSummary]

Returned(df, info) == [ok |-> TRUE, error |-> "", df |-> df, summary |-> info]

\* df['date'] = pd.to_datetime(df['date'], errors='coerce')
ParseDates(df) ==
    SetColumn(df, <<"d","a","t","e">>, [r \in 1..Len(df.rows) |-> to_datetime_value(Column(df, <<"d","a","t","e">>)[r])])

\* df['amount'] = _clean_amount_column(df['amount'])
CleanAmounts(df) == SetColumn(df, <<"a","m","o","u","n","t">>, _clean_amount_column(Column(df, <<"a","m","o","u","n","t">>)))

CleanMerchants(df) ==
    SetColumn(df, <<"m","e","r","c","h","a","n","t">>, [r \in 1..Len(df.rows) |-> CleanMerchant(Column(df, <<"m","e","r","c","h","a","n","t">>)[r])])

\* df['is_suspicious'] = df['amount'] < 0
MarkSuspicious(df) ==
    SetColumn(df, <<"i","s","_","s","u","s","p","i","c","i","o","u","s">>,
              [r \in 1..Len(df.rows) |-> BoolCell(IsNegative(Column(df, <<"a","m","o","u","n","t">>)[r]))])

\* a normalisation that drops the rows without a date only
DropUndated(df) == dropna(df, {<<"d","a","t","e">>})

\* dropna(subset=['date', 'amount']); pd.to_numeric leaves the floats as they
\* are, so the second dropna(subset=['amount']) finds nothing more
DropInvalid(df) == dropna(dropna(df, {<<"d","a","t","e">>, <<"a","m","o","u","n","t">>}), {<<"a","m","o","u","n","t">>})

\* lines 212-232 of parse_and_clean_csv: the typed columns, the dropped rows,
\* is_suspicious and the sort
CleanRows(df) ==
    sort_values_by_date(MarkSuspicious(DropInvalid(CleanMerchants(CleanAmounts(ParseDates(df))))))

\* lines 207-210: the inferred merchant column renamed, or the placeholder added
MerchantAs(df, m) ==
    IF m.found /\ m.col # <<"m","e","r","c","h","a","n","t">> THEN RenameCol(df, m.col, <<"m","e","r","c","h","a","n","t">>)
    ELSE IF ~HasCol(df, <<"m","e","r","c","h","a","n","t">>)
         THEN SetColumn(df, <<"m","e","r","c","h","a","n","t">>, [r \in 1..Len(df.rows) |-> StrCell(unknown_merchant)])
    ELSE df

WithMerchant(df) == MerchantAs(df, _infer_merchant_column(df))

\* lines 201-204: the resolved columns renamed to date and amount
Renamed(df, date_col, amount_col) ==
    RenameCol(RenameCol(df, date_col, <<"d","a","t","e">>), amount_col, <<"a","m","o","u","n","t">>)

\* the cleaned table with its summary
Summarized(out, original_count) == Returned(out, BuildSummary(out, original_count))

\* lines 206-262, on the table with date and amount renamed
Normalized(df, original_count) ==
    \* df_clean['amount'] when the rename found nothing to rename
    IF ~HasCol(df, <<"a","m","o","u","n","t">>) THEN Raised("KeyError: amount")
    ELSE Summarized(CleanRows(df), original_count)

\* a resolution that also insists on a merchant column
ResolvedWithMerchant(df, date_col, amount_col, original_count) ==
    IF ~date_col.found THEN Raised("ValueError: Could not identify date column")
    ELSE IF ~amount_col.found THEN Raised("ValueError: Could not identify amount column")
    ELSE IF ~_infer_merchant_column(Renamed(df, date_col.col, amount_col.col)).found
         THEN Raised("ValueError: Could not identify merchant column")
    ELSE Normalized(WithMerchant(Renamed(df, date_col.col, amount_col.col)), original_count)

\* lines 196-262
Resolved(df, date_col, amount_col, original_count) ==
    IF ~date_col.found THEN Raised("ValueError: Could not identify date column")
    ELSE IF ~amount_col.found THEN Raised("ValueError: Could not identify amount column")
    ELSE Normalized(WithMerchant(Renamed(df, date_col.col, amount_col.col)), original_count)

\* lines 193-262, on the table after _merge_debit_credit
Inferred(df, original_count) ==
    Resolved(df, _infer_date_column(df), _infer_amount_column(df), original_count)

\* parse_and_clean_csv: [ok, error, df, summary]; ok FALSE is the raised exception
parse_and_clean_csv(df) ==
    IF ~_is_safe_csv(df).ok THEN Raised("ValueError: Security validation failed")
    ELSE Inferred(_merge_debit_credit(_normalize_column_names(df)), Len(df.rows))

\* lines 278-286 of validate_csv_structure
Validated(date_col, amount_col) ==
    IF ~date_col.found THEN [ok |-> FALSE, msg |-> "Could not identify a date column"]
    ELSE IF ~amount_col.found THEN [ok |-> FALSE, msg |-> "Could not identify an amount column"]
    ELSE [ok |-> TRUE, msg |-> ""]

ValidatedFrame(df) == Validated(_infer_date_column(df), _infer_amount_column(df))

\* validate_csv_structure: [ok, msg]
validate_csv_structure(df) ==
    IF ~_is_safe_csv(df).ok THEN _is_safe_csv(df)
    ELSE ValidatedFrame(_merge_debit_credit(_normalize_column_names(df)))


(***************************************************************************)
(* embeddings.py                                                           *)
(***************************************************************************)
\* a whole-valued float turned int by _serialize_amount, in units
IntCell(n) == [k |-> "int", n |-> n]

\* str(v) of a cell that may be an int
py_str_any(v) == IF v.k = "int" THEN (IF v.n < 0 THEN <<"-">> \o IntToStr(-v.n) ELSE IntToStr(v.n))
                 ELSE py_str(v)

\* EmbeddingManager.vector_store is None
NoStore == [init |-> FALSE, docs |-> <<>>]

Store(docs) == [init |-> TRUE, docs |-> docs]

Document(page_content, metadata) == [page_content |-> page_content, metadata |-> metadata]

\* a dict: its items in insertion order, each [key, val]
Item(key, val) == [key |-> key, val |-> val]

HasKey(d, key) == \E i \in 1..Len(d) : d[i].key = key

\* d.get(key, default)
Get(d, key, default) ==
    IF \E i \in 1..Len(d) : d[i].key = key
    THEN d[CHOOSE i \in 1..Len(d) : d[i].key = key].val
    ELSE default

\* d[key] = val: in place for a key d has, at the end otherwise
Put(d, key, val) ==
    IF \E i \in 1..Len(d) : d[i].key = key
    THEN [i \in 1..Len(d) |-> IF d[i].key = key THEN Item(key, val) ELSE d[i]]
    ELSE Append(d, Item(key, val))

\* one dict of df.to_dict('records'): the row keyed by the column names
RowDict(df, r) == [c \in 1..Len(df.cols) |-> Item(df.cols[c], df.rows[r][c])]

\* df.to_dict('records')
to_dict_records(df) == [r \in 1..Len(df.rows) |-> RowDict(df, r)]

\* Python truth of a cell: None, '', 0 and False are false, NaN is true
Truthy(v) ==
    CASE v.k = "str" -> v.s # <<>>
      [] v.k \in {"num", "int"} -> v.n # 0
      [] v.k = "bool" -> v.b
      [] OTHER -> TRUE

\* x or ''
OrEmpty(v) == IF Truthy(v) THEN py_str(v) ELSE <<>>

\* ''.strip() or 'unknown'
OrUnknownText(t) == IF t = <<>> THEN <<"u","n","k","n","o","w","n">> ELSE t

_make_text_for_embedding(item) ==
    OrUnknownText(str_strip(OrEmpty(Get(item, <<"m","e","r","c","h","a","n","t">>, StrCell(<<>>))) \o <<" ">>
                            \o OrEmpty(Get(item, <<"d","e","s","c","r","i","p","t","i","o","n">>, StrCell(<<>>)))))

\* Timestamp.isoformat()
IsoFormat(d) ==
    IntToStr(d \div 10000)
    \o <<"-", Digits[((d \div 1000) % 10) + 1], Digits[((d \div 100) % 10) + 1]>>
    \o <<"-", Digits[((d \div 10) % 10) + 1], Digits[(d % 10) + 1]>>
    \o <<"T","0","0",":","0","0",":","0","0">>

\* the isoformat of a parsed date string, the string itself when it does not parse
IsoOrText(parsed, text) == IF parsed.k = "ts" THEN StrCell(IsoFormat(parsed.d)) ELSE StrCell(text)

_serialize_date(v) ==
    CASE v.k = "null" -> Null
      [] v.k = "ts" -> StrCell(IsoFormat(v.d))
      [] OTHER -> IsoOrText(to_datetime_value(StrCell(py_str(v))), py_str(v))

\* int(val) if val.is_integer() else val
IntIfWhole(f) ==
    IF ~f.ok THEN Null
    ELSE IF f.v.k = "num" /\ f.v.n % 100 = 0 THEN IntCell(f.v.n \div 100)
    ELSE f.v

_serialize_amount(v) ==
    CASE v.k = "null" -> Null
      [] v.k \in {"num", "inf"} -> IntIfWhole([ok |-> TRUE, v |-> v])
      [] v.k = "int" -> v
      [] v.k = "bool" -> IntCell(IF v.b THEN 1 ELSE 0)
      [] v.k = "str" -> IntIfWhole(py_float(v.s))
      [] OTHER -> Null

_make_metadata(item) ==
    << Item(<<"d","a","t","e">>, _serialize_date(Get(item, <<"d","a","t","e">>, Null))),
       Item(<<"m","e","r","c","h","a","n","t">>, StrCell(py_str(Get(item, <<"m","e","r","c","h","a","n","t">>, StrCell(<<>>))))),
       Item(<<"a","m","o","u","n","t">>, _serialize_amount(Get(item, <<"a","m","o","u","n","t">>, Null))) >>

\* the documents FAISS.from_texts / add_texts stores for a batch, in order
BatchDocs(batch) ==
    [i \in 1..Len(batch) |-> Document(_make_text_for_embedding(batch[i]), _make_metadata(batch[i]))]

\* the full batches only
NumWholeBatches(n, size) == n \div size

\* math.ceil(n / batch_size)
NumBatches(n, size) == (n + size - 1) \div size

Min(a, b) == IF a < b THEN a ELSE b

\* data[start:end] of batch i (from 0)
BatchOf(records, size, i) == SubSeq(records, i * size + 1, Min((i + 1) * size, Len(records)))

\* from_texts on no store, add_texts on an existing one
WithBatch(store, docs) == Store(store.docs \o docs)

\* a directory: absent, or present with the index files complete (docs: the
\* documents they hold) or not (between makedirs and the end of save_local, or
\* after an rmtree that stopped partway)
Absent == [st |-> "absent", docs |-> <<>>]

Partial == [st |-> "partial", docs |-> <<>>]

Complete(docs) == [st |-> "complete", docs |-> docs]

Exists(dir) == dir.st # "absent"

SaveResult(raised, error, canon_dir, tmp_dir) ==
    [raised |-> raised, error |-> error, canon |-> canon_dir, tmp |-> tmp_dir]

\* an except clause that raises the RuntimeError without removing tmp_dir
SaveFailedUncleaned(canon_dir) ==
    { SaveResult(TRUE, "RuntimeError: Failed to save vector store", canon_dir, Partial) }

\* the except clause of save_vector_store: rmtree(tmp_dir), which may itself
\* fail, then the RuntimeError
SaveFailed(canon_dir) ==
    { SaveResult(TRUE, "RuntimeError: Failed to save vector store", canon_dir, Absent),
      SaveResult(TRUE, "OSError in rmtree(tmp_dir)", canon_dir, Partial) }

\* lines 139-147 once tmp_dir is an empty directory: save_local, rmtree(path),
\* move, each of which may raise
SaveInto(store, canon_dir) ==
    \* save_local(tmp_dir) raises
    SaveFailed(canon_dir)
    \* shutil.rmtree(path) raises, before or after it removed some of the files
    \cup (IF Exists(canon_dir) THEN SaveFailed(canon_dir) \cup SaveFailed(Partial) ELSE {})
    \* shutil.move(tmp_dir, path) raises: path is already removed
    \cup SaveFailed(Absent)
    \cup { SaveResult(FALSE, "", Complete(store.docs), Absent) }

\* save_vector_store: every way the call can end, as [raised, error, canon, tmp]
save_vector_store(store, canon_dir, tmp_dir) ==
    IF ~store.init
    THEN { SaveResult(TRUE, "RuntimeError: No vector store to save.", canon_dir, tmp_dir) }
    ELSE \* os.makedirs(parent, exist_ok=True) raises: only for a parent that is
         \* not there yet, so with neither directory in it
         (IF ~Exists(canon_dir) /\ ~Exists(tmp_dir)
          THEN { SaveResult(TRUE, "OSError in makedirs(parent)", canon_dir, tmp_dir) }
          ELSE {})
         \* rmtree of a left-over tmp_dir raises, outside the try
         \cup (IF Exists(tmp_dir)
               THEN { SaveResult(TRUE, "OSError in rmtree(tmp_dir)", canon_dir, tmp_dir),
                      SaveResult(TRUE, "OSError in rmtree(tmp_dir)", canon_dir, Partial) }
               ELSE {})
         \* os.makedirs(tmp_dir) raises
         \cup { SaveResult(TRUE, "OSError in makedirs(tmp_dir)", canon_dir, Absent) }
         \cup SaveInto(store, canon_dir)

LastSave(o, entered, store) == [called |-> TRUE, raised |-> o.raised, error |-> o.error,
                                canon_before |-> entered, docs |-> store.docs]

NoSave == [called |-> FALSE, raised |-> FALSE, error |-> "", canon_before |-> Absent, docs |-> <<>>]

\* one turn of the loop of create_embeddings (lines 90-124): the batch is embedded
\* and stored, which the embedding API may refuse, then saved when persist_path is
\* given; an exception leaves the loop
EmbedBatch ==
    /\ xpc = "embedding"
    /\ \/ /\ xpc' = "raised"
          /\ UNCHANGED <<vector_store, batch_i, canon, tmp, last_save>>
       \/ /\ vector_store' = WithBatch(vector_store, BatchDocs(BatchOf(data, batch_size, batch_i)))
          /\ IF persist_path
             THEN \E o \in save_vector_store(vector_store', canon, tmp) :
                     /\ canon' = o.canon
                     /\ tmp' = o.tmp
                     /\ last_save' = LastSave(o, canon, vector_store')
                     /\ xpc' = IF o.raised THEN "raised"
                               ELSE IF batch_i + 1 < NumBatches(Len(data), batch_size)
                                    THEN "embedding" ELSE "created"
                     /\ batch_i' = IF o.raised THEN batch_i ELSE batch_i + 1
             ELSE /\ UNCHANGED <<canon, tmp, last_save>>
                  /\ batch_i' = batch_i + 1
                  /\ xpc' = IF batch_i + 1 < NumBatches(Len(data), batch_size)
                            THEN "embedding" ELSE "created"
    /\ UNCHANGED <<data, batch_size, persist_path>>
    /\ UNCHANGED <<ingestVars, sessionVars>>

\* embedding_manager.save_vector_store(vector_store_path), after create_embeddings
\* returned (app.py line 250)
FinalSave ==
    /\ xpc = "created"
    /\ \E o \in save_vector_store(vector_store, canon, tmp) :
          /\ canon' = o.canon
          /\ tmp' = o.tmp
          /\ last_save' = LastSave(o, canon, vector_store)
          /\ xpc' = IF o.raised THEN "raised" ELSE "saved"
    /\ UNCHANGED <<vector_store, data, batch_size, persist_path, batch_i>>
    /\ UNCHANGED <<ingestVars, sessionVars>>

\* load_vector_store (lines 149-166): [ok, error, store]
load_vector_store(store, canon_dir) ==
    IF canon_dir.st = "absent"
    THEN [ok |-> FALSE, error |-> "FileNotFoundError: Vector store not found", store |-> store]
    ELSE IF canon_dir.st = "partial"
    THEN [ok |-> FALSE, error |-> "RuntimeError: vector store empty, corrupt or not loadable",
          store |-> store]
    ELSE [ok |-> TRUE, error |-> "", store |-> Store(canon_dir.docs)]

\* embedding_manager.load_vector_store(path) on the canonical path
LoadVectorStore ==
    /\ xpc \in {"saved", "raised"}
    /\ ~vector_store.init
    /\ load_vector_store(vector_store, canon).ok
    /\ vector_store' = load_vector_store(vector_store, canon).store
    /\ UNCHANGED <<data, batch_size, persist_path, batch_i, xpc, canon, tmp, last_save>>
    /\ UNCHANGED <<ingestVars, sessionVars>>

\* the state create_embeddings is in once called: returned at once for no data
\* (lines 85-87), at the first batch otherwise
Called(records) == IF Len(records) = 0 THEN "created" ELSE "embedding"

IndexIdle ==
    /\ vector_store = NoStore
    /\ data = <<>>
    /\ batch_size = 1
    /\ persist_path = FALSE
    /\ batch_i = 0
    /\ xpc = "idle"
    /\ canon = Absent
    /\ tmp = Absent
    /\ last_save = NoSave

(***************************************************************************)
(* retrieval.py                                                            *)
(***************************************************************************)
\* RetrieverService.__init__: k: int = 10
TopK == 10

broad_keywords ==
    << <<"s","t","o","r","y">>, <<"t","e","l","l"," ","m","e">>, <<"n","a","r","r","a","t","i","v","e">>, <<"s","u","m","m","a","r","y">>, <<"o","v","e","r","v","i","e","w">>, <<"d","e","s","c","r","i","b","e">>,
       <<"p","a","t","t","e","r","n">>, <<"t","r","e","n","d">>, <<"h","a","b","i","t">>, <<"b","e","h","a","v","i","o","r">>, <<"i","n","s","i","g","h","t">>, <<"a","n","a","l","y","z","e">>,
       <<"t","o","t","a","l">>, <<"a","l","l">>, <<"e","n","t","i","r","e">>, <<"o","v","e","r","a","l","l">>, <<"c","o","m","p","l","e","t","e">>, <<"e","v","e","r","y","t","h","i","n","g">>,
       <<"a","v","e","r","a","g","e">>, <<"m","e","a","n">>, <<"c","o","u","n","t">>, <<"h","o","w"," ","m","a","n","y">> >>

\* a classifier that does not lower-case the question
is_broad_cased(q) == AnyIn(broad_keywords, q)

_is_broad_query(q) == AnyIn(broad_keywords, str_lower(q))

no_table_keywords == << <<"s","t","o","r","y">>, <<"t","e","l","l"," ","m","e">>, <<"n","a","r","r","a","t","i","v","e">>, <<"d","e","s","c","r","i","b","e">> >>

_should_show_display_table(q) == ~AnyIn(no_table_keywords, str_lower(q))

base_cols == {<<"d","a","t","e">>, <<"m","e","r","c","h","a","n","t">>, <<"a","m","o","u","n","t">>, <<"i","s","_","s","u","s","p","i","c","i","o","u","s">>}

NotBase(col) == col \notin base_cols

_get_extra_columns(df) == SelectSeq(df.cols, NotBase)

\* str(row.get('merchant', '')).lower() of row r
MerchantLower(df, r) == str_lower(py_str(Get(RowDict(df, r), <<"m","e","r","c","h","a","n","t">>, StrCell(<<>>))))

\* a filter that takes merchants of any length
NamesAnyLength(q_lower, merchant) == merchant # <<>> /\ str_in(merchant, q_lower)

\* the condition of line 29 on row r
Names(q_lower, merchant) == merchant # <<>> /\ Len(merchant) > 2 /\ str_in(merchant, q_lower)

NoFilter == [found |-> FALSE, s |-> <<>>]

\* the merchant of the first of the rows, in table order
FirstOf(df, rows) ==
    IF rows = {} THEN NoFilter
    ELSE [found |-> TRUE, s |-> MerchantLower(df, CHOOSE r \in rows : \A o \in rows : r <= o)]

\* _extract_merchant_filter: [found, s], found FALSE for None
_extract_merchant_filter(q, df) ==
    FirstOf(df, {r \in 1..Len(df.rows) : Names(str_lower(q), MerchantLower(df, r))})

\* re.search(pat, s) for a pattern of literal characters and '.', which stands for
\* any character; the merchant names of the modelled tables hold letters, digits,
\* spaces, '-' and '.'
re_search(pat, s) ==
    \E i \in 0..(Len(s) - Len(pat)) : \A j \in 1..Len(pat) : pat[j] = "." \/ pat[j] = s[i + j]

\* Series.str.lower().str.contains(pat, na=False): the mask
str_contains(vals, pat) ==
    [r \in 1..Len(vals) |-> vals[r].k = "str" /\ re_search(pat, str_lower(vals[r].s))]

\* df[mask]
FilterRows(df, mask) ==
    [cols |-> df.cols, rows |-> Pick(df.rows, KeptIndices(Len(df.rows), 1, {r \in 1..Len(df.rows) : ~mask[r]}))]

\* df[cols].copy()
Project(df, cols) ==
    [cols |-> cols,
     rows |-> [r \in 1..Len(df.rows) |-> [c \in 1..Len(cols) |-> df.rows[r][IndexOf(cols[c], df.cols)]]]]

dataset_words == << <<"a","l","l">>, <<"t","o","t","a","l">>, <<"e","n","t","i","r","e">>, <<"o","v","e","r","a","l","l">>, <<"e","v","e","r","y","t","h","i","n","g">> >>

\* lines 55-64 of _filter_display_data
FilteredBy(q, df, merchant_filter, display_cols) ==
    IF merchant_filter.found /\ merchant_filter.s # <<>>
    THEN Project(FilterRows(df, str_contains(Column(df, <<"m","e","r","c","h","a","n","t">>), merchant_filter.s)), display_cols)
    ELSE IF AnyIn(dataset_words, str_lower(q)) THEN Project(df, display_cols)
    ELSE EmptyFrame

_filter_display_data(q, df) ==
    FilteredBy(q, df, _extract_merchant_filter(q, df),
               << <<"d","a","t","e">>, <<"m","e","r","c","h","a","n","t">>, <<"a","m","o","u","n","t">> >> \o _get_extra_columns(df))

ref_cols == << <<"r","e","f","e","r","e","n","c","e">>, <<"t","r","a","n","s","a","c","t","i","o","n","_","r","e","f","e","r","e","n","c","e">>, <<"r","e","f">> >>

\* the condition of line 91 on the i-th of ref_cols
HasRef(item, i) == HasKey(item, ref_cols[i]) /\ Truthy(Get(item, ref_cols[i], Null))

\* 'Ref: <value> ' for the first of ref_cols the row holds a true value under
RefPrefix(item, found) ==
    IF found = {} THEN <<>>
    ELSE <<"R","e","f",":"," ">> \o py_str(Get(item, ref_cols[CHOOSE i \in found : \A o \in found : i <= o], Null))
         \o <<" ">>

\* lines 82-95: the page_content of a row
RowText(item) ==
    RefPrefix(item, {i \in 1..Len(ref_cols) : HasRef(item, i)})
    \o py_str(Get(item, <<"m","e","r","c","h","a","n","t">>, StrCell(<<>>)))
    \o <<" ","-"," ","$">> \o py_str(Get(item, <<"a","m","o","u","n","t">>, NumCell(0)))
    \o <<" ","o","n"," ">> \o py_str(Get(item, <<"d","a","t","e">>, StrCell(<<>>)))

RECURSIVE WithExtras(_, _, _, _)
\* lines 104-106: metadata[col] = str(row[col]) for the extra columns that are not NaN
WithExtras(md, item, extra, i) ==
    IF i > Len(extra) THEN md
    ELSE IF HasKey(item, extra[i]) /\ ~isna(Get(item, extra[i], Null))
         THEN WithExtras(Put(md, extra[i], StrCell(py_str(Get(item, extra[i], Null)))), item, extra, i + 1)
         ELSE WithExtras(md, item, extra, i + 1)

\* lines 97-101
RowMetadata(item) ==
    << Item(<<"d","a","t","e">>, StrCell(py_str(Get(item, <<"d","a","t","e">>, StrCell(<<>>))))),
       Item(<<"m","e","r","c","h","a","n","t">>, StrCell(py_str(Get(item, <<"m","e","r","c","h","a","n","t">>, StrCell(<<>>))))),
       Item(<<"a","m","o","u","n","t">>, Get(item, <<"a","m","o","u","n","t">>, NumCell(0))) >>

\* the Document of one row of df_clean on the broad path
RowDoc(item, extra) == Document(RowText(item), WithExtras(RowMetadata(item), item, extra, 1))

\* '%.2f' of the hundredths a >= 0
Fixed2(a) == IntToStr(a \div 100) \o <<".", Digits[((a % 100) \div 10) + 1], Digits[(a % 10) + 1]>>

\* f'{v:.2f}' of a float
Format2f(v) ==
    CASE v.k = "num" -> IF v.n < 0 THEN <<"-">> \o Fixed2(-v.n) ELSE Fixed2(v.n)
      [] v.k = "inf" -> IF v.sign < 0 THEN <<"-","i","n","f">> ELSE <<"i","n","f">>
      [] OTHER -> <<"n","a","n">>

\* a / den to the nearest whole; the binary quotient of a decimal tie lies on
\* either side of it, tie_up says on which
Nearest(a, den, tie_up) ==
    IF 2 * (a % den) > den \/ (2 * (a % den) = den /\ tie_up) THEN (a \div den) + 1 ELSE a \div den

\* f'{avg_amount:.2f}' of the mean held as the quotient [num, den]
FormatMean(avg, tie_up) ==
    IF avg.num.k # "num" THEN Format2f(avg.num)
    ELSE IF avg.num.n < 0 THEN <<"-">> \o Fixed2(Nearest(-avg.num.n, avg.den, tie_up))
    ELSE Fixed2(Nearest(avg.num.n, avg.den, tie_up))

\* f'{v}' of date_range's start and end: a string, or None
RangeText(v) == IF v.k = "null" THEN <<"N","o","n","e">> ELSE v.s

\* lines 110-115
SummaryText(info, tie_up) ==
    <<"D","a","t","a","s","e","t"," ","S","u","m","m","a","r","y",":"," ">> \o IntToStr(info.total_transactions) \o <<" ","t","r","a","n","s","a","c","t","i","o","n","s",","," ">>
    \o <<"T","o","t","a","l",":"," ","$">> \o Format2f(info.total_amount) \o <<","," ">>
    \o <<"A","v","e","r","a","g","e",":"," ","$">> \o FormatMean(info.avg_amount, tie_up) \o <<","," ">>
    \o <<"D","a","t","e"," ","R","a","n","g","e",":"," ">> \o RangeText(info.date_range.start) \o <<" ","t","o"," ">> \o RangeText(info.date_range.end)

\* lines 116-119
SummaryDoc(info, tie_up) ==
    Document(SummaryText(info, tie_up),
             << Item(<<"d","a","t","e">>, StrCell(<<"s","u","m","m","a","r","y">>)), Item(<<"m","e","r","c","h","a","n","t">>, StrCell(<<"S","U","M","M","A","R","Y">>)),
                Item(<<"a","m","o","u","n","t">>, info.total_amount) >>)

\* lines 80-120: the summary document, then one document per row in table order
BroadDocs(df, info, tie_up) ==
    << SummaryDoc(info, tie_up) >>
    \o [r \in 1..Len(df.rows) |-> RowDoc(RowDict(df, r), _get_extra_columns(df))]

NotSafeKey(item) == item.key \notin {<<"a","m","o","u","n","t">>, <<"d","a","t","e">>, <<"m","e","r","c","h","a","n","t">>}

\* a re-wrap that passes the metadata through
RawMetadata(md) == md

\* lines 133-143
SafeMetadata(md) ==
    << Item(<<"a","m","o","u","n","t">>, Get(md, <<"a","m","o","u","n","t">>, NumCell(0))),
       Item(<<"d","a","t","e">>, Get(md, <<"d","a","t","e">>, StrCell(<<>>))),
       Item(<<"m","e","r","c","h","a","n","t">>, Get(md, <<"m","e","r","c","h","a","n","t">>, StrCell(<<>>))) >>
    \o SelectSeq(md, NotSafeKey)

\* lines 131-146
SafeDocs(docs) == [i \in 1..Len(docs) |-> Document(docs[i].page_content, SafeMetadata(docs[i].metadata))]

\* lines 152-160
DisplayRow(md) ==
    << Item(<<"d","a","t","e">>, Get(md, <<"d","a","t","e">>, Null)),
       Item(<<"m","e","r","c","h","a","n","t">>, Get(md, <<"m","e","r","c","h","a","n","t">>, Null)),
       Item(<<"a","m","o","u","n","t">>, Get(md, <<"a","m","o","u","n","t">>, Null)) >>
    \o SelectSeq(md, NotSafeKey)

RECURSIVE KeysFrom(_, _, _, _)
\* the keys of the dicts in order of first appearance
KeysFrom(dicts, r, i, acc) ==
    IF r > Len(dicts) THEN acc
    ELSE IF i > Len(dicts[r]) THEN KeysFrom(dicts, r + 1, 1, acc)
    ELSE IF \E c \in 1..Len(acc) : acc[c] = dicts[r][i].key THEN KeysFrom(dicts, r, i + 1, acc)
    ELSE KeysFrom(dicts, r, i + 1, Append(acc, dicts[r][i].key))

FrameOf(dicts, cols) ==
    [cols |-> cols,
     rows |-> [r \in 1..Len(dicts) |-> [c \in 1..Len(cols) |-> Get(dicts[r], cols[c], Null)]]]

\* pd.DataFrame(display_data) of a list of dicts
DataFrameOfDicts(dicts) == FrameOf(dicts, KeysFrom(dicts, 1, 1, <<>>))

\* a narrow display in the reverse of the retrieval order
NarrowDisplayReversed(safe_docs, show_table) ==
    IF show_table
    THEN DataFrameOfDicts([i \in 1..Len(safe_docs) |->
                              DisplayRow(safe_docs[Len(safe_docs) + 1 - i].metadata)])
    ELSE EmptyFrame

\* lines 148-165
NarrowDisplay(safe_docs, show_table) ==
    IF show_table THEN DataFrameOfDicts([i \in 1..Len(safe_docs) |-> DisplayRow(safe_docs[i].metadata)])
    ELSE EmptyFrame

\* a broad display that ignores show_table
BroadDisplayAlways(q, df, show_table) == _filter_display_data(q, df)

\* lines 122-125
BroadDisplay(q, df, show_table) == IF show_table THEN _filter_display_data(q, df) ELSE EmptyFrame

\* EmbeddingManager defines no persist_directory: getattr answers its default
persist_directory == Null

\* a retriever that searches an empty index when none was built
get_retriever_lazy(store, canon_dir) == [ok |-> TRUE, error |-> "", store |-> store]

\* get_retriever (lines 66-73): [ok, error, store], the store being the one the
\* retriever searches
get_retriever(store, canon_dir) ==
    IF ~store.init
    THEN IF persist_directory.k # "null" /\ Truthy(persist_directory)
         THEN load_vector_store(store, canon_dir)
         ELSE [ok |-> FALSE, error |-> "RuntimeError: Vector store not initialized", store |-> store]
    ELSE [ok |-> TRUE, error |-> "", store |-> store]

\* what retriever.invoke may answer: the min(k, n) nearest of the n documents of
\* the store, in the order of their distances, which the embeddings decide
SearchResults(store) ==
    { [i \in 1..Min(TopK, Len(store.docs)) |-> store.docs[f[i]]] :
        f \in { g \in [1..Min(TopK, Len(store.docs)) -> 1..Len(store.docs)] :
                  \A a, b \in 1..Min(TopK, Len(store.docs)) : a # b => g[a] # g[b] } }

RetrieveRaised(msg, is_broad, show_table, store) ==
    [status |-> "raised", error |-> msg, is_broad |-> is_broad, show_table |-> show_table,
     safe_docs |-> <<>>, df_display |-> EmptyFrame, store |-> store]

RetrieveReturned(safe_docs, df_display, is_broad, show_table, store) ==
    [status |-> "returned", error |-> "", is_broad |-> is_broad, show_table |-> show_table,
     safe_docs |-> safe_docs, df_display |-> df_display, store |-> store]

\* the else branch of retrieve (lines 128-165), docs being retriever.invoke's answer
RetrieveNarrow(got, safe_docs, show_table) ==
    IF ~got.ok THEN RetrieveRaised(got.error, FALSE, show_table, got.store)
    ELSE RetrieveReturned(safe_docs, NarrowDisplay(safe_docs, show_table), FALSE, show_table, got.store)

\* retrieve: the locals at its return, or the exception; hits is the answer of
\* retriever.invoke, used on the narrow path only
retrieve(q, df, info, store, canon_dir, hits, tie_up) ==
    IF _is_broad_query(q)
    THEN RetrieveReturned(BroadDocs(df, info, tie_up),
                          BroadDisplay(q, df, _should_show_display_table(q)),
                          TRUE, _should_show_display_table(q), store)
    ELSE RetrieveNarrow(get_retriever(store, canon_dir), SafeDocs(hits), _should_show_display_table(q))

\* where the rows of df_display are stored: "copy" after .copy() (lines 58 and
\* 62), "constructed" for pd.DataFrame() and pd.DataFrame(display_data) (lines
\* 64, 125, 163 and 165); no path returns self.df_clean or a view of it
DisplayOrigin(q, df) ==
    IF /\ _is_broad_query(q)
       /\ _should_show_display_table(q)
       /\ \/ (_extract_merchant_filter(q, df).found /\ _extract_merchant_filter(q, df).s # <<>>)
          \/ AnyIn(dataset_words, str_lower(q))
    THEN "copy" ELSE "constructed"

\* a service that keeps the rows of the merchant filter in self.df_clean
SelfFiltered(q, df, info) ==
    [df_clean |-> IF _extract_merchant_filter(q, df).found /\ _extract_merchant_filter(q, df).s # <<>>
                  THEN FilterRows(df, str_contains(Column(df, <<"m","e","r","c","h","a","n","t">>),
                                                   _extract_merchant_filter(q, df).s))
                  ELSE df,
     summary |-> info]

\* self.df_clean and self.summary, the session's own objects (__init__, lines
\* 9-11), when retrieve(q) ends: the service reads them (iterrows, indexing,
\* .str, .get) and assigns to neither, nor to a column or key of them
SelfAfter(q, df, info) == [df_clean |-> df, summary |-> info]

(***************************************************************************)
(* llm_chain.py                                                            *)
(***************************************************************************)
EXPECTED_METADATA_KEYS == << <<"m","e","r","c","h","a","n","t">>, <<"a","m","o","u","n","t">>, <<"d","a","t","e">> >>

\* the check of answer_with_docs (lines 65-69): some document lacks an expected key
MissingKeys(docs) ==
    \E i \in 1..Len(docs) : \E e \in 1..Len(EXPECTED_METADATA_KEYS) :
        ~HasKey(docs[i].metadata, EXPECTED_METADATA_KEYS[e])

\* answer_with_docs on the documents retrieve returned
answer_with_docs(docs) ==
    IF MissingKeys(docs) THEN "ValueError: document is missing metadata keys" ELSE "invoked"

(***************************************************************************)
(* app.py, the question form (lines 394-421)                               *)
(***************************************************************************)
Handled(r) ==
    [status |-> r.status, error |-> r.error, is_broad |-> r.is_broad, show_table |-> r.show_table,
     safe_docs |-> r.safe_docs, df_display |-> r.df_display,
     answer |-> IF r.status = "returned" THEN answer_with_docs(r.safe_docs) ELSE "none"]

NoResult ==
    [status |-> "none", error |-> "", is_broad |-> FALSE, show_table |-> FALSE,
     safe_docs |-> <<>>, df_display |-> EmptyFrame, answer |-> "none"]

(***************************************************************************)
(* Uploaded tables.  Each schema is a header row and the rows its tables   *)
(* are drawn from; a table is any sequence of at most MaxRows of them.     *)
(***************************************************************************)
Tables(cols, rowset) ==
    {[cols |-> cols, rows |-> rows] : rows \in UNION {[1..n -> rowset] : n \in 0..MaxRows}}

\* literal date / merchant / amount headers, upper and mixed case
PlainCols == << <<"D","a","t","e">>, <<" ","M","e","r","c","h","a","n","t">>, <<"A","M","O","U","N","T">> >>

PlainRows ==
    { << StrCell(<<"2","0","2","4","-","0","1","-","0","5">>), StrCell(<<" ","S","t","a","r","b","u","c","k","s"," ">>), StrCell(<<"4","5",".","0","0">>) >>,
      << StrCell(<<"2","0","2","4","-","0","1","-","0","3">>), StrCell(<<"W","A","L","M","A","R","T">>), StrCell(<<"(","1","2",".","5","0",")">>) >>,
      << StrCell(<<"b","a","d">>), StrCell(<<"U","b","e","r">>), StrCell(<<"3",".","0","0">>) >>,
      << StrCell(<<"2","0","2","4","-","0","1","-","0","4">>), Null, StrCell(<<"N","/","A">>) >>,
      << StrCell(<<"2","0","2","4","-","0","1","-","0","5">>), StrCell(<<" ">>), StrCell(<<"$","1",",","2","3","4",".","5","6">>) >>,
      << Null, StrCell(<<"b","p">>), StrCell(<<"-">>) >>,
      << StrCell(<<"2","0","2","4","-","0","1","-","0","6">>), Null, StrCell(<<"7",".","0","0">>) >>,
      << StrCell(<<"2","0","2","4","-","0","1","-","0","7">>), StrCell(<<>>), StrCell(<<"8",".","0","0">>) >> }

\* split debit / credit columns, the date and the merchant under other names
SplitCols == << <<"T","x","n"," ","D","a","t","e">>, <<"D","e","s","c">>, <<"D","e","b","i","t">>, <<"C","r","e","d","i","t">> >>

SplitRows ==
    { << StrCell(<<"2","0","2","4","-","0","2","-","0","1">>), StrCell(<<"R","e","n","t">>), StrCell(<<"5","0">>), StrCell(<<"0">>) >>,
      << StrCell(<<"2","0","2","4","-","0","1","-","3","1">>), StrCell(<<"S","a","l","a","r","y">>), StrCell(<<"0">>), StrCell(<<"1","2","0">>) >>,
      << StrCell(<<"2","0","2","4","-","0","2","-","3","0">>), StrCell(<<"F","e","e">>), StrCell(<<"1",".","5">>), Null >>,
      << StrCell(<<"2","0","2","4","-","0","2","-","0","2">>), StrCell(<<"V","o","i","d">>), Null, Null >> }

\* numeric amounts, no merchant column, a pass-through reference column
BareCols == << <<"p","o","s","t","i","n","g","_","d","a","t","e">>, <<"v","a","l","u","e">>, <<"r","e","f">> >>

BareRows ==
    { << StrCell(<<"2","0","2","4","-","0","3","-","0","1">>), NumCell(1250), NumCell(700) >>,
      << StrCell(<<"2","0","2","4","-","0","3","-","0","2">>), NumCell(-300), Null >>,
      << StrCell(<<"2","0","2","4","-","0","3","-","0","1">>), Null, NumCell(900) >>,
      << StrCell(<<"2","0","2","4","-","0","3","-","0","3">>), InfCell(1), NumCell(100) >> }

\* debit and credit columns next to an amount and a value column
MergeCols == << <<"D","a","t","e">>, <<"R","e","f">>, <<"A","m","o","u","n","t">>, <<"V","a","l","u","e">>, <<"D","e","b","i","t">>, <<"C","r","e","d","i","t">> >>

MergeRows ==
    { << StrCell(<<"2","0","2","4","-","0","4","-","0","1">>), StrCell(<<"A","1">>), StrCell(<<"9","9","9">>), StrCell(<<"7">>), StrCell(<<"5","0">>), StrCell(<<"0">>) >>,
      << StrCell(<<"2","0","2","4","-","0","4","-","0","2">>), StrCell(<<"A","2">>), StrCell(<<"9","9","9">>), StrCell(<<"7">>), StrCell(<<"0">>), StrCell(<<"1","2","0">>) >>,
      << StrCell(<<"2","0","2","4","-","0","4","-","0","3">>), StrCell(<<"A","3">>), StrCell(<<"5">>), StrCell(<<"7">>), Null, StrCell(<<"3","0">>) >>,
      << StrCell(<<"2","0","2","4","-","0","4","-","0","4">>), StrCell(<<"A","4">>), Null, StrCell(<<"7">>), StrCell(<<"2","0">>), Null >> }

\* no date column at all
NoDateCols == << <<"M","e","r","c","h","a","n","t">>, <<"A","m","o","u","n","t">> >>

NoDateRows ==
    { << StrCell(<<"U","b","e","r">>), StrCell(<<"3",".","0","0">>) >>,
      << StrCell(<<"B","o","l","t">>), StrCell(<<"G","H","S"," ","4","5",".","0","0">>) >> }

\* a date but nothing numeric
NoAmountCols == << <<"D","a","t","e">>, <<"M","e","r","c","h","a","n","t">>, <<"N","o","t","e">> >>

NoAmountRows ==
    { << StrCell(<<"2","0","2","4","-","0","5","-","0","1">>), StrCell(<<"U","b","e","r">>), StrCell(<<"r","i","d","e">>) >>,
      << StrCell(<<"2","0","2","4","-","0","5","-","0","2">>), StrCell(<<"B","o","l","t">>), Null >> }

\* neither a date nor anything numeric
NoRoleCols == << <<"M","e","r","c","h","a","n","t">>, <<"N","o","t","e">> >>

NoRoleRows == { << StrCell(<<"U","b","e","r">>), StrCell(<<"r","i","d","e">>) >>, << StrCell(<<"B","o","l","t">>), Null >> }

\* month-first dates and the amounts, both under headers that are no alias
TxnCols == << <<"T","x","n"," ","D","a","t","e">>, <<"D","e","s","c">>, <<"A","m","t">> >>

TxnRows ==
    { << StrCell(<<"0","1","/","0","5","/","2","0","2","4">>), StrCell(<<"R","e","n","t">>), StrCell(<<"5","0",".","0","0">>) >>,
      << StrCell(<<"0","1","/","0","6","/","2","0","2","4">>), StrCell(<<"S","a","l","a","r","y">>), StrCell(<<"1","2","0",".","0","0">>) >> }

RawTables ==
    Tables(PlainCols, PlainRows) \cup Tables(SplitCols, SplitRows)
    \cup Tables(BareCols, BareRows) \cup Tables(NoDateCols, NoDateRows)
    \cup Tables(MergeCols, MergeRows)
    \cup Tables(NoAmountCols, NoAmountRows) \cup Tables(NoRoleCols, NoRoleRows)
    \cup Tables(TxnCols, TxnRows)

SessionIdle ==
    /\ processed = FALSE
    /\ df_clean = EmptyFrame
    /\ summary = NoSummary
    /\ question = <<>>
    /\ result = NoResult

NotRun == [ok |-> FALSE, error |-> "not run", df |-> EmptyFrame, summary |-> NoSummary]

(***************************************************************************)
(* SpecIngest: parse_and_clean_csv on an uploaded table, then on its own   *)
(* output.                                                                 *)
(***************************************************************************)
InitIngest ==
    /\ raw \in RawTables
    /\ first = NotRun
    /\ second = NotRun
    /\ ipc = "start"
    /\ SessionIdle
    /\ IndexIdle

\* df_clean, summary = parse_and_clean_csv(df)
Parse ==
    /\ ipc = "start"
    /\ first' = parse_and_clean_csv(raw)
    /\ ipc' = "parsed"
    /\ UNCHANGED <<raw, second, sessionVars, indexVars>>

\* parse_and_clean_csv(df_clean)
Reparse ==
    /\ ipc = "parsed"
    /\ first.ok
    /\ second' = parse_and_clean_csv(first.df)
    /\ ipc' = "reparsed"
    /\ UNCHANGED <<raw, first, sessionVars, indexVars>>

NextIngest == Parse \/ Reparse

SpecIngest == InitIngest /\ [][NextIngest]_vars

(***************************************************************************)
(* SpecIndex: EmbeddingManager.create_embeddings followed by               *)
(* save_vector_store, over record lists, batch sizes, an empty or already  *)
(* populated store, and a disk that holds an earlier index or a left-over  *)
(* temporary directory.                                                    *)
(***************************************************************************)
IngestIdle ==
    /\ raw = EmptyFrame
    /\ first = NotRun
    /\ second = NotRun
    /\ ipc = "idle"

\* dicts handed to create_embeddings: a cleaned row, and one with neither date nor
\* merchant
IndexRecords ==
    { << Item(<<"d","a","t","e">>, TsCell(20240105)), Item(<<"m","e","r","c","h","a","n","t">>, StrCell(<<"s","t","a","r","b","u","c","k","s">>)),
         Item(<<"a","m","o","u","n","t">>, NumCell(4500)), Item(<<"i","s","_","s","u","s","p","i","c","i","o","u","s">>, BoolCell(FALSE)) >>,
      << Item(<<"d","e","s","c","r","i","p","t","i","o","n">>, StrCell(<<"b","e","a","n","s">>)), Item(<<"a","m","o","u","n","t">>, StrCell(<<"1","2",".","5">>)) >> }

\* the documents of an index that was not built from the session's table
ForeignDocs ==
    << Document(<<"u","b","e","r"," ","t","r","i","p">>, << Item(<<"m","e","r","c","h","a","n","t">>, StrCell(<<"u","b","e","r">>)),
                                 Item(<<"c","a","t","e","g","o","r","y">>, StrCell(<<"t","r","a","v","e","l">>)) >>),
       Document(<<"n","o","t","e">>, <<>>) >>

InitIndex ==
    /\ IngestIdle
    /\ SessionIdle
    /\ data \in UNION {[1..n -> IndexRecords] : n \in 0..MaxRecords}
    /\ batch_size \in 1..MaxBatch
    /\ persist_path \in BOOLEAN
    /\ vector_store \in {NoStore, Store(ForeignDocs)}
    /\ canon \in {Absent, Complete(ForeignDocs)}
    /\ tmp \in {Absent, Partial}
    /\ batch_i = 0
    /\ xpc = Called(data)
    /\ last_save = NoSave

NextIndex == EmbedBatch \/ FinalSave

SpecIndex == InitIndex /\ [][NextIndex]_vars

(***************************************************************************)
(* Spec: a session whose upload was processed (app.py lines 225-254), and  *)
(* the questions asked of it.  The index was built from the cleaned table  *)
(* and saved, or the embedding call failed and left no store; the          *)
(* canonical path may then hold nothing or an index of another build.      *)
(***************************************************************************)
SessionCols == << <<"D","a","t","e">>, <<"M","e","r","c","h","a","n","t">>, <<"A","m","o","u","n","t">>, <<"R","e","f">> >>

SessionRows ==
    << << StrCell(<<"2","0","2","4","-","0","1","-","0","5">>), StrCell(<<"S","t","a","r","b","u","c","k","s">>), StrCell(<<"4","5",".","0","0">>), StrCell(<<"R","1">>) >>,
       << StrCell(<<"2","0","2","4","-","0","1","-","0","4">>), StrCell(<<"B","P">>), StrCell(<<"(","2","0",")">>), Null >>,
       << StrCell(<<"2","0","2","4","-","0","1","-","0","2">>), StrCell(<<"a","m","a","z","o","n",".","c","o","m">>), StrCell(<<"9",".","9","9">>), Null >>,
       << StrCell(<<"2","0","2","4","-","0","1","-","0","6">>), StrCell(<<"A","m","a","z","o","n","-","C","o","m">>), StrCell(<<"5">>), Null >>,
       << StrCell(<<"2","0","2","4","-","0","1","-","0","7">>), StrCell(<<"S","U","M","M","A","R","Y">>), StrCell(<<"1",".","0","0">>), Null >>,
       << StrCell(<<"b","a","d">>), StrCell(<<"U","b","e","r">>), StrCell(<<"3">>), Null >> >>

\* the uploads of at most MaxRows of these rows, in this order
SessionTables ==
    { DataFrame(SessionCols,
                Pick(SessionRows, KeptIndices(Len(SessionRows), 1, (1..Len(SessionRows)) \ keep))) :
        keep \in {k \in SUBSET (1..Len(SessionRows)) : Cardinality(k) <= MaxRows} }

Questions ==
    { <<"W","h","a","t","'","s"," ","m","y"," ","t","o","t","a","l"," ","s","p","e","n","d","i","n","g","?">>,
      <<"H","o","w"," ","m","u","c","h"," ","a","t"," ","S","t","a","r","b","u","c","k","s","?">>,
      <<"T","e","l","l"," ","m","e"," ","a"," ","s","t","o","r","y">>,
      <<"D","e","s","c","r","i","b","e"," ","S","t","a","r","b","u","c","k","s">>,
      <<"A","n","y"," ","s","m","a","l","l"," ","b","u","y","s","?">>,
      <<"T","o","t","a","l"," ","a","t"," ","B","P">>,
      <<"O","v","e","r","a","l","l"," ","a","t"," ","a","m","a","z","o","n",".","c","o","m">>,
      <<"M","e","a","n"," ","s","p","e","n","d">>,
      <<"U","b","e","r"," ","r","i","d","e","s","?">>,
      <<"D","i","d"," ","I"," ","p","a","y"," ","B","P","?">> }

\* app.py line 247
AppBatchSize == 200

Init ==
    /\ raw \in SessionTables
    /\ first = parse_and_clean_csv(raw)
    /\ first.ok
    /\ second = NotRun
    /\ ipc = "parsed"
    /\ processed = TRUE
    /\ df_clean = first.df
    /\ summary = first.summary
    /\ question = <<>>
    /\ result = NoResult
    /\ data = to_dict_records(df_clean)
    /\ batch_size = AppBatchSize
    /\ persist_path = TRUE
    /\ tmp = Absent
    /\ \/ /\ Len(data) > 0
          /\ vector_store = Store(BatchDocs(data))
          /\ canon = Complete(vector_store.docs)
          /\ batch_i = 1
          /\ xpc = "saved"
          /\ last_save = [called |-> TRUE, raised |-> FALSE, error |-> "",
                          canon_before |-> canon, docs |-> vector_store.docs]
       \/ /\ vector_store = NoStore
          /\ canon \in {Absent, Complete(ForeignDocs)}
          /\ batch_i = 0
          /\ xpc = "raised"
          /\ last_save = NoSave

\* the sides a decimal tie of the mean can fall on
TieSides(info) ==
    IF info.avg_amount.num.k = "num"
       /\ 2 * ((IF info.avg_amount.num.n < 0 THEN -info.avg_amount.num.n ELSE info.avg_amount.num.n)
               % info.avg_amount.den) = info.avg_amount.den
    THEN BOOLEAN ELSE {FALSE}

\* what retriever.invoke answers for q: asked on the narrow path only
Hits(q, store) == IF _is_broad_query(q) THEN {<<>>} ELSE SearchResults(store)

\* the question form: retrieve, then answer_with_docs on what it returned
Ask ==
    /\ processed
    /\ \E q \in Questions, tie_up \in TieSides(summary) :
         \E hits \in Hits(q, get_retriever(vector_store, canon).store) :
            /\ question' = q
            /\ result' = Handled(retrieve(q, df_clean, summary, vector_store, canon, hits, tie_up))
                          @@ [display_origin |-> DisplayOrigin(q, df_clean)]
            /\ df_clean' = SelfAfter(q, df_clean, summary).df_clean
            /\ summary' = SelfAfter(q, df_clean, summary).summary
            /\ vector_store' = IF _is_broad_query(q) THEN vector_store
                               ELSE get_retriever(vector_store, canon).store
    /\ UNCHANGED processed
    /\ UNCHANGED <<data, batch_size, persist_path, batch_i, xpc, canon, tmp, last_save>>
    /\ UNCHANGED ingestVars

Next == Ask \/ LoadVectorStore

Spec == Init /\ [][Next]_vars

Times(df, row) == Cardinality({r \in 1..Len(df.rows) : df.rows[r] = row})

\* the same columns and the same rows, each as often, in any order
SameTransactions(a, b) ==
    /\ a.cols = b.cols
    /\ Len(a.rows) = Len(b.rows)
    /\ \A r \in 1..Len(a.rows) : Times(a, a.rows[r]) = Times(b, a.rows[r])

\* C2 as stated: whenever parse_and_clean_csv succeeded on a table, it succeeds on
\* the table it returned and returns the same transactions.
C2_IdempotentOnEveryResult ==
    (ipc = "reparsed") => (second.ok /\ SameTransactions(first.df, second.df))

\* C2: when parse_and_clean_csv succeeded on a table and the table it returned
\* passes the safety validator (it has a row, at most 50 columns, and no denylisted
\* text in its header or first ten rows), parse_and_clean_csv succeeds on the
\* returned table and returns the same transactions: the same columns and the same
\* rows with the same date, merchant, amount, is_suspicious and pass-through values.
C2_IdempotentOnAcceptedResult ==
    (ipc = "reparsed" /\ _is_safe_csv(first.df).ok) =>
        (second.ok /\ SameTransactions(first.df, second.df))

\* a second run on a table whose first run dropped a row and rewrote a cell
C2_Witness ==
    /\ ipc = "reparsed"
    /\ second.ok
    /\ Len(second.df.rows) > 0
    /\ first.summary.invalid_rows > 0
    /\ \E r \in 1..Len(raw.rows) : \A o \in 1..Len(first.df.rows) :
          raw.rows[r][2] # Column(first.df, <<"m","e","r","c","h","a","n","t">>)[o]

(***************************************************************************)
(* Properties of save_vector_store (SpecIndex).                            *)
(***************************************************************************)
\* C3: after a save_vector_store call that raised, the canonical path holds what
\* it held when the call was entered (the complete index saved before, or
\* nothing when none was) or the complete index of the store being saved; it is
\* never left missing, partly removed or partly written.
C3_SaveIsAtomic ==
    (last_save.called /\ last_save.raised) =>
        (canon = last_save.canon_before \/ canon = Complete(last_save.docs))

\* a failed save that removed the index saved before
C3_IndexLost ==
    /\ last_save.called
    /\ last_save.raised
    /\ last_save.canon_before.st = "complete"
    /\ canon.st = "absent"

(***************************************************************************)
(* Properties of retrieve (Spec).                                          *)
(***************************************************************************)
\* the keywords the classifier is specified by
BroadWords ==
    { <<"s","t","o","r","y">>, <<"t","e","l","l"," ","m","e">>, <<"n","a","r","r","a","t","i","v","e">>, <<"s","u","m","m","a","r","y">>, <<"o","v","e","r","v","i","e","w">>, <<"d","e","s","c","r","i","b","e">>, <<"p","a","t","t","e","r","n">>,
      <<"t","r","e","n","d">>, <<"h","a","b","i","t">>, <<"b","e","h","a","v","i","o","r">>, <<"i","n","s","i","g","h","t">>, <<"a","n","a","l","y","z","e">>, <<"t","o","t","a","l">>, <<"a","l","l">>, <<"e","n","t","i","r","e">>,
      <<"o","v","e","r","a","l","l">>, <<"c","o","m","p","l","e","t","e">>, <<"e","v","e","r","y","t","h","i","n","g">>, <<"a","v","e","r","a","g","e">>, <<"m","e","a","n">>, <<"c","o","u","n","t">>, <<"h","o","w"," ","m","a","n","y">> }

NarrativeWords == { <<"s","t","o","r","y">>, <<"t","e","l","l"," ","m","e">>, <<"n","a","r","r","a","t","i","v","e">>, <<"d","e","s","c","r","i","b","e">> }

DatasetWords == { <<"a","l","l">>, <<"t","o","t","a","l">>, <<"e","n","t","i","r","e">>, <<"o","v","e","r","a","l","l">>, <<"e","v","e","r","y","t","h","i","n","g">> }

\* the lower-cased question holds one of the words
Mentions(words, q) == \E w \in words : str_in(w, str_lower(q))

\* the cell of document d under a metadata key
Meta(d, key) == Get(d.metadata, key, Null)

\* the merchants of the session's table, as the strings its rows hold
MerchantOf(r) == Column(df_clean, <<"m","e","r","c","h","a","n","t">>)[r].s

\* the rows whose merchant occurs in the lower-cased question
Named(q) == {r \in 1..Len(df_clean.rows) : str_in(MerchantOf(r), str_lower(q))}

\* C4: a narrow question asked while the vector store is None ends in the
\* 'Vector store not initialized' error: retrieve returns no documents and no
\* display table, and answer_with_docs is not reached.
C4_NarrowNeedsIndex ==
    (result.status # "none" /\ ~Mentions(BroadWords, question) /\ ~vector_store.init) =>
        /\ result.status = "raised"
        /\ result.error = "RuntimeError: Vector store not initialized"
        /\ result.answer = "none"

\* a narrow question refused although an index lies at the canonical path
C4_Witness ==
    /\ result.status = "raised"
    /\ ~vector_store.init
    /\ canon.st = "complete"
    /\ question = <<"H","o","w"," ","m","u","c","h"," ","a","t"," ","S","t","a","r","b","u","c","k","s","?">>

\* C5: the documents retrieve returns for a broad question are the summary
\* document, whose merchant is 'SUMMARY', at position 0, followed by one document
\* per row of the table in table order; no other document has the merchant
\* 'SUMMARY'.
C5_OneSummaryFirst ==
    (result.status = "returned" /\ result.is_broad) =>
        /\ Len(result.safe_docs) = Len(df_clean.rows) + 1
        /\ Meta(result.safe_docs[1], <<"m","e","r","c","h","a","n","t">>) = StrCell(<<"S","U","M","M","A","R","Y">>)
        /\ \A i \in 2..Len(result.safe_docs) :
              /\ Meta(result.safe_docs[i], <<"m","e","r","c","h","a","n","t">>) # StrCell(<<"S","U","M","M","A","R","Y">>)
              /\ Meta(result.safe_docs[i], <<"m","e","r","c","h","a","n","t">>) = StrCell(MerchantOf(i - 1))
              /\ Meta(result.safe_docs[i], <<"a","m","o","u","n","t">>) = Column(df_clean, <<"a","m","o","u","n","t">>)[i - 1]

\* a broad answer over a table with a merchant uploaded as SUMMARY
C5_Witness ==
    /\ result.status = "returned"
    /\ result.is_broad
    /\ Len(df_clean.rows) >= 2
    /\ \E r \in 1..Len(df_clean.rows) : MerchantOf(r) = <<"s","u","m","m","a","r","y">>

\* C6: every document retrieve returns, on either path, has the metadata keys
\* merchant, amount and date, and answer_with_docs does not raise its
\* missing-keys error on them.
C6_MetadataKeysPresent ==
    (result.status = "returned") =>
        /\ \A i \in 1..Len(result.safe_docs) :
              \A key \in {<<"m","e","r","c","h","a","n","t">>, <<"a","m","o","u","n","t">>, <<"d","a","t","e">>} :
                  \E j \in 1..Len(result.safe_docs[i].metadata) :
                      result.safe_docs[i].metadata[j].key = key
        /\ result.answer = "invoked"

\* a narrow answer from an index whose documents lack the keys
C6_Witness ==
    /\ result.status = "returned"
    /\ ~result.is_broad
    /\ Len(result.safe_docs) = 2
    /\ \E i \in 1..Len(vector_store.docs) : vector_store.docs[i].metadata = <<>>
    /\ \E i \in 1..Len(result.safe_docs) : Meta(result.safe_docs[i], <<"m","e","r","c","h","a","n","t">>) = StrCell(<<>>)

\* C7: is_broad is true exactly when the lower-cased question contains one of
\* the 22 broad keywords; "What's my total spending?" is broad and "How much at
\* Starbucks?" is not.
C7_BroadIffKeyword ==
    (result.status # "none") =>
        /\ result.is_broad <=> Mentions(BroadWords, question)
        /\ (question = <<"W","h","a","t","'","s"," ","m","y"," ","t","o","t","a","l"," ","s","p","e","n","d","i","n","g","?">>) => result.is_broad
        /\ (question = <<"H","o","w"," ","m","u","c","h"," ","a","t"," ","S","t","a","r","b","u","c","k","s","?">>) => ~result.is_broad

\* a question made broad by a keyword it holds in upper case
C7_Witness ==
    /\ result.status = "returned"
    /\ result.is_broad
    /\ question = <<"T","o","t","a","l"," ","a","t"," ","B","P">>

\* C8: show_table is false exactly when the lower-cased question contains one of
\* story, tell me, narrative, describe, and then the display table is empty
\* whatever was retrieved.
C8_NarrativeHidesTable ==
    (result.status = "returned") =>
        /\ ~result.show_table <=> Mentions(NarrativeWords, question)
        /\ ~result.show_table => (result.df_display.rows = <<>> /\ result.df_display.cols = <<>>)

\* a narrative question that names a merchant of the table
C8_Witness ==
    /\ result.status = "returned"
    /\ ~result.show_table
    /\ question = <<"D","e","s","c","r","i","b","e"," ","S","t","a","r","b","u","c","k","s">>
    /\ \E r \in 1..Len(df_clean.rows) : MerchantOf(r) = <<"s","t","a","r","b","u","c","k","s">>
    /\ result.df_display = EmptyFrame

\* C9 as stated: the display table of a narrow question that names a merchant of
\* the table holds rows of that merchant only.
C9_NarrowShowsNamedMerchantOnly ==
    (result.status = "returned" /\ ~result.is_broad /\ Named(question) # {}) =>
        \E r \in Named(question) :
            \A i \in 1..Len(result.df_display.rows) :
                /\ Column(result.df_display, <<"m","e","r","c","h","a","n","t">>)[i].k = "str"
                /\ str_in(MerchantOf(r), str_lower(Column(result.df_display, <<"m","e","r","c","h","a","n","t">>)[i].s))

\* C9: the display table of a narrow question with show_table true has one row
\* per retrieved document, in retrieval order, holding the document's date,
\* merchant and amount; the merchant the question names does not filter it.
C9_NarrowShowsRetrieved ==
    (result.status = "returned" /\ ~result.is_broad /\ result.show_table) =>
        /\ Len(result.df_display.rows) = Len(result.safe_docs)
        /\ \A i \in 1..Len(result.safe_docs) :
              \A key \in {<<"d","a","t","e">>, <<"m","e","r","c","h","a","n","t">>, <<"a","m","o","u","n","t">>} :
                  Column(result.df_display, key)[i] = Meta(result.safe_docs[i], key)

\* a narrow question naming a merchant, shown with a row of another merchant
C9_Witness ==
    /\ result.status = "returned"
    /\ ~result.is_broad
    /\ result.show_table
    /\ question = <<"H","o","w"," ","m","u","c","h"," ","a","t"," ","S","t","a","r","b","u","c","k","s","?">>
    /\ \E r \in 1..Len(df_clean.rows) : MerchantOf(r) = <<"s","t","a","r","b","u","c","k","s">>
    /\ \E i \in 1..Len(result.df_display.rows) :
          Column(result.df_display, <<"m","e","r","c","h","a","n","t">>)[i] = StrCell(<<"b","p">>)

\* the i-th of a set of rows, in table order
NthOf(rows, i) == CHOOSE r \in rows : Cardinality({o \in rows : o < r}) = i - 1

\* the display table holds these rows of the table, in table order, under the
\* date, merchant and amount columns and the pass-through columns
DisplayIs(rows) ==
    /\ Len(result.df_display.rows) = Cardinality(rows)
    /\ \A key \in {<<"d","a","t","e">>, <<"m","e","r","c","h","a","n","t">>, <<"a","m","o","u","n","t">>} : HasCol(result.df_display, key)
    /\ \A c \in 1..Len(df_clean.cols) :
          df_clean.cols[c] # <<"i","s","_","s","u","s","p","i","c","i","o","u","s">> => HasCol(result.df_display, df_clean.cols[c])
    /\ \A i \in 1..Len(result.df_display.rows) : \A c \in 1..Len(result.df_display.cols) :
          result.df_display.rows[i][c] = Column(df_clean, result.df_display.cols[c])[NthOf(rows, i)]

AllRows == 1..Len(df_clean.rows)

LongNamed(q) == {r \in Named(q) : Len(MerchantOf(r)) > 2}

AmountSigns == {<<>>, <<"-">>}

AmountSymbols ==
    {<<>>, <<"$">>, <<"U+00A3">>, <<"U+20AC">>, <<"U+20B5">>, <<"U+00A2">>, <<"U+20B9">>,
     <<"u","s","d">>, <<"G","H","S"," ">>, <<"E","u","r">>, <<"g","b","p">>}

AmountBodies == {<<"1","0">>, <<"1",",","2","3","4",".","5","6">>, <<"4","5",".","0","0">>, <<"0">>, <<".">>, <<>>}

\* the raw text: sign, symbol, body, wrapped in parentheses or not
AmountText(wrapped, sign, symbol, body) ==
    IF wrapped THEN <<"(">> \o sign \o symbol \o body \o <<")">> ELSE sign \o symbol \o body

MissingMarkers == {<<"N","/","A">>, <<"n","a">>, <<"N","U","L","L">>, <<" ","N","o","n","e"," ">>, <<" "," ">>}

RawAmounts ==
    {StrCell(AmountText(w, sg, sy, b)) :
        w \in BOOLEAN, sg \in AmountSigns, sy \in AmountSymbols, b \in AmountBodies}
    \cup {StrCell(m) : m \in MissingMarkers}
    \cup {Null, NumCell(4500), NumCell(-1250)}

\* a table of one amount
AmountFrame(v) == [cols |-> << <<"a","m","o","u","n","t">> >>, rows |-> << <<v>> >>]

InitAmount ==
    /\ raw \in {AmountFrame(v) : v \in RawAmounts}
    /\ first = NotRun
    /\ second = NotRun
    /\ ipc = "start"
    /\ SessionIdle
    /\ IndexIdle

\* df['amount'] = _clean_amount_column(df['amount'])
CleanAmount ==
    /\ ipc = "start"
    /\ first' = CleanAmounts(raw)
    /\ ipc' = "cleaned"
    /\ UNCHANGED <<raw, second, sessionVars, indexVars>>

\* df.dropna(subset=[...]), pd.to_numeric(errors='coerce'), dropna(subset=['amount'])
DropMissing ==
    /\ ipc = "cleaned"
    /\ second' = DropInvalid(first)
    /\ ipc' = "dropped"
    /\ UNCHANGED <<raw, first, sessionVars, indexVars>>

NextAmount == CleanAmount \/ DropMissing

SpecAmount == InitAmount /\ [][NextAmount]_vars

\* the number a body of digits, separators and a point stands for, in
\* hundredths; Null for a body with no digit
BodyValue(body) ==
    CASE body = <<"1","0">> -> NumCell(1000)
      [] body = <<"1",",","2","3","4",".","5","6">> -> NumCell(123456)
      [] body = <<"4","5",".","0","0">> -> NumCell(4500)
      [] body = <<"0">> -> NumCell(0)
      [] OTHER -> Null

Negated(v) == IF v.k = "num" THEN NumCell(-v.n) ELSE v

\* the cleaned amount of the one row
Cleaned == first.rows[1][1]

\* the raw amount of the one row
RawAmount == raw.rows[1][1]

MapsMarkers ==
    /\ (RawAmount.k = "null" \/ (RawAmount.k = "str" /\ RawAmount.s \in MissingMarkers))
          => Cleaned = Null
    /\ RawAmount.k = "num" => Cleaned = RawAmount
    /\ (ipc = "dropped" /\ Cleaned = Null) => second.rows = <<>>

\* C11 as stated: the content of parentheses is negated whatever
\* it is, so a negative content comes out positive
C11_ParenthesesNegateContent ==
    ipc # "start" =>
        /\ MapsMarkers
        /\ \A w \in BOOLEAN, sg \in AmountSigns, sy \in AmountSymbols, b \in AmountBodies :
              RawAmount = StrCell(AmountText(w, sg, sy, b)) =>
                  Cleaned = (IF w = (sg = <<>>) THEN Negated(BodyValue(b)) ELSE BodyValue(b))

\* C11: the amount cleaner maps a raw amount (an optional minus sign, an
\* optional currency symbol or code in any case, digits with thousands
\* separators and a decimal point, the whole optionally wrapped in parentheses)
\* to its signed value: parentheses around an unsigned content negate it, and
\* parentheses around a content that carries its own minus sign give missing;
\* currency symbols and codes, separators and spaces are removed; an empty
\* value, a missing marker, and a value with no digit give missing, never zero,
\* and the row of a missing amount is dropped.
C11_CleanedAmount ==
    ipc # "start" =>
        /\ MapsMarkers
        /\ \A w \in BOOLEAN, sg \in AmountSigns, sy \in AmountSymbols, b \in AmountBodies :
              RawAmount = StrCell(AmountText(w, sg, sy, b)) =>
                  Cleaned = (IF w /\ sg # <<>> THEN Null
                             ELSE IF w \/ sg # <<>> THEN Negated(BodyValue(b))
                             ELSE BodyValue(b))

\* "($1,234.56)" has been cleaned to -1234.56 and its row kept
C11_Witness ==
    /\ ipc = "dropped"
    /\ RawAmount = StrCell(<<"(","$","1",",","2","3","4",".","5","6",")">>)
    /\ Cleaned = NumCell(-123456)
    /\ Len(second.rows) = 1

\* "(-10)" has been cleaned to missing
C11_SignedContent ==
    /\ ipc = "dropped"
    /\ RawAmount = StrCell(<<"(","-","1","0",")">>)
    /\ Cleaned = Null

\* the uploaded table has a debit and a credit header
HasDebitCredit ==
    HasCol(_normalize_column_names(raw), <<"d","e","b","i","t">>) /\ HasCol(_normalize_column_names(raw), <<"c","r","e","d","i","t">>)

\* what a debit or credit cell of the uploaded tables stands for, in hundredths
Money(v) ==
    CASE v = StrCell(<<"5","0">>) -> 5000
      [] v = StrCell(<<"1","2","0">>) -> 12000
      [] v = StrCell(<<"3","0">>) -> 3000
      [] v = StrCell(<<"2","0">>) -> 2000
      [] v = StrCell(<<"1",".","5">>) -> 150
      [] OTHER -> 0

\* credit minus debit of row r of the uploaded table
Merged(r) ==
    NumCell(Money(Column(_normalize_column_names(raw), <<"c","r","e","d","i","t">>)[r])
            - Money(Column(_normalize_column_names(raw), <<"d","e","b","i","t">>)[r]))

\* the uploaded rows whose date (the first column) parses
Dated == {r \in 1..Len(raw.rows) : to_datetime_value(raw.rows[r][1]).k = "ts"}

\* C12: when the normalized headers hold both a debit and a credit column, every
\* returned row carries as its amount the credit minus the debit of the uploaded
\* row of its date, a missing debit or credit counting as 0, also when the table
\* has an amount and a value column of its own; every dated row is returned.
C12_AmountIsCreditMinusDebit ==
    (ipc # "start" /\ HasDebitCredit /\ first.ok) =>
        /\ Len(first.df.rows) = Cardinality(Dated)
        /\ \A o \in 1..Len(first.df.rows) :
              \E r \in Dated :
                  /\ Column(first.df, <<"d","a","t","e">>)[o] = to_datetime_value(raw.rows[r][1])
                  /\ Column(first.df, <<"a","m","o","u","n","t">>)[o] = Merged(r)
        /\ ~HasCol(first.df, <<"d","e","b","i","t">>)
        /\ ~HasCol(first.df, <<"c","r","e","d","i","t">>)

\* debit 50 / credit 0 and debit 20 / credit missing, in a table that has an
\* amount and a value column: the amounts are -50 and -20
C12_Witness ==
    /\ ipc = "parsed"
    /\ first.ok
    /\ raw.cols = MergeCols
    /\ HasCol(first.df, <<"v","a","l","u","e">>)
    /\ Column(first.df, <<"a","m","o","u","n","t">>) = << NumCell(-5000), NumCell(-2000) >>

(***************************************************************************)
(* SpecSafety: _is_safe_csv on tables at its limits: no row, the sampled   *)
(* rows and the row after them, the column and row limits, headers and     *)
(* cells with markup.                                                      *)
(***************************************************************************)
NormalCols == << <<"D","a","t","e">>, <<"M","e","r","c","h","a","n","t">>, <<"A","m","o","u","n","t">> >>

SafetyHeaders ==
    { NormalCols,
      << <<"D","a","t","e">>, <<"<","s","c","r","i","p","t",">","a","l","e","r","t","(","1",")","<","/","s","c","r","i","p","t",">">>, <<"A","m","o","u","n","t">> >>,
      << <<"D","a","t","e">>, <<"M","e","r","c","h","a","n","t">>, <<"O","n","C","l","i","c","k","=","p","a","y">> >>,
      << <<"<","i","f","r","a","m","e"," ","s","r","c","=","x",">">>, <<"M","e","r","c","h","a","n","t">>, <<"A","m","o","u","n","t">> >>,
      << <<"D","a","t","e">>, <<"_","_","i","m","p","o","r","t","_","_","(","'","o","s","'",")">>, <<"A","m","o","u","n","t">> >>,
      << <<"D","a","t","e">>, <<"o","s",".","s","y","s","t","e","m","(","'","l","s","'",")">>, <<"A","m","o","u","n","t">> >> }

SafetyCells ==
    { StrCell(<<"S","t","a","r","b","u","c","k","s">>), StrCell(<<"<","S","C","R","I","P","T",">">>), StrCell(<<"J","a","v","a","S","c","r","i","p","t",":","a","l","e","r","t","(","1",")">>),
      StrCell(<<"x"," ","o","n","e","r","r","o","r","=","1">>), StrCell(<<"o","n","c","l","i","c","k","=","1">>), StrCell(<<"o","n","l","o","a","d","=","1">>),
      StrCell(<<"<","i","f","r","a","m","e"," ","s","r","c","=","x",">">>), StrCell(<<"_","_","i","m","p","o","r","t","_","_","(","'","o","s","'",")">>), StrCell(<<"o","s",".","s","y","s","t","e","m","(","'","l","s","'",")">>),
      StrCell(<<"e","v","a","l","(","1",")">>), StrCell(<<"E","X","E","C","(","1",")">>), Null, NumCell(1250) }

SafeRow == << StrCell(<<"2","0","2","4","-","0","1","-","0","5">>), StrCell(<<"S","t","a","r","b","u","c","k","s">>), StrCell(<<"4","5",".","0","0">>) >>

\* n rows under cols, the merchant of row p being v
TableWith(cols, n, p, v) ==
    [cols |-> cols,
     rows |-> [r \in 1..n |-> IF r = p THEN << StrCell(<<"2","0","2","4","-","0","1","-","0","5">>), v, StrCell(<<"4","5",".","0","0">>) >>
                              ELSE SafeRow]]

\* a table of ncols columns and nrows rows of plain cells
WideTable(ncols, nrows) ==
    [cols |-> [c \in 1..ncols |-> <<"c">> \o IntToStr(c)],
     rows |-> [r \in 1..nrows |-> [c \in 1..ncols |-> StrCell(<<"1">>)]]]

SafetyTables ==
    {TableWith(NormalCols, SafetySampleRows + 1, p, v) :
        p \in {1, SafetySampleRows, SafetySampleRows + 1}, v \in SafetyCells}
    \cup {TableWith(h, 5, 1, v) :
            h \in SafetyHeaders, v \in {StrCell(<<"S","t","a","r","b","u","c","k","s">>), StrCell(<<"<","i","f","r","a","m","e"," ","s","r","c","=","x",">">>), Null}}
    \cup {WideTable(c, r) : c \in {MinCsvCols - 1, MinCsvCols, MaxCsvCols, MaxCsvCols + 1},
                            r \in {0, 1, 2}}
    \cup {TableWith(NormalCols, n, 0, Null) : n \in {0, MaxCsvRows, MaxCsvRows + 1}}

InitSafety ==
    /\ raw \in SafetyTables
    /\ first = NotRun
    /\ second = NotRun
    /\ ipc = "start"
    /\ SessionIdle
    /\ IndexIdle

\* is_safe, safety_msg = _is_safe_csv(df)
CheckSafety ==
    /\ ipc = "start"
    /\ first' = _is_safe_csv(raw)
    /\ ipc' = "checked"
    /\ UNCHANGED <<raw, second, sessionVars, indexVars>>

NextSafety == CheckSafety

SpecSafety == InitSafety /\ [][NextSafety]_vars

\* the substrings refused in a header
HeaderDenylist ==
    { <<"j","a","v","a","s","c","r","i","p","t",":">>, <<"<","s","c","r","i","p","t">>, <<"o","n","e","r","r","o","r","=">>, <<"o","n","c","l","i","c","k","=">>, <<"o","n","l","o","a","d","=">>, <<"e","v","a","l","(">>, <<"e","x","e","c","(">>,
      <<"_","_","i","m","p","o","r","t","_","_">>, <<"s","y","s","t","e","m","(">> }

\* the substrings refused in a cell
CellDenylist ==
    { <<"j","a","v","a","s","c","r","i","p","t",":">>, <<"<","s","c","r","i","p","t">>, <<"o","n","e","r","r","o","r","=">>, <<"o","n","c","l","i","c","k","=">>, <<"o","n","l","o","a","d","=">>, <<"e","v","a","l","(">>, <<"e","x","e","c","(">>,
      <<"<","i","f","r","a","m","e">> }

\* some header of the table contains, in lower case, a substring of list
HeaderHas(list) == \E c \in 1..Len(raw.cols) : \E p \in list : str_in(p, str_lower(raw.cols[c]))

\* some non-null cell of the first 10 rows contains, in lower case, a substring
\* of list
CellHas(list) ==
    \E r \in 1..Len(raw.rows) : \E c \in 1..Len(raw.cols) :
        /\ r <= 10
        /\ raw.rows[r][c].k # "null"
        /\ \E p \in list : str_in(p, str_lower(py_str(raw.rows[r][c])))

C14_CellScanUsesHeaderDenylist ==
    ipc = "checked" =>
        /\ CellHas(HeaderDenylist) => ~first.ok
        /\ first.msg = "Potentially malicious content detected" => CellHas(HeaderDenylist)

\* a table whose first row holds __import__('os') has been accepted
C14_ImportAccepted ==
    /\ ipc = "checked"
    /\ first.ok
    /\ raw.rows[1][2] = StrCell(<<"_","_","i","m","p","o","r","t","_","_","(","'","o","s","'",")">>)

\* a table has been rejected for an <iframe cell, which no header is refused for
C14_IframeRejected ==
    /\ ipc = "checked"
    /\ first.msg = "Potentially malicious content detected"
    /\ raw.rows[1][2] = StrCell(<<"<","i","f","r","a","m","e"," ","s","r","c","=","x",">">>)
    /\ ~CellHas(HeaderDenylist)

\* the uploaded table with its headers normalized and debit / credit merged
Prepared == _merge_debit_credit(_normalize_column_names(raw))

DateResolved == _infer_date_column(Prepared).found

AmountResolved == _infer_amount_column(Prepared).found

\* the date and the amount of uploaded row r, in the columns resolved for them
DateCell(r) == Column(Prepared, _infer_date_column(Prepared).col)[r]

AmountCell(r) == Column(Prepared, _infer_amount_column(Prepared).col)[r]

\* every uploaded row has a date that does not parse or an amount that cleans to
\* missing
NoRowSurvives ==
    \A r \in 1..Len(raw.rows) :
        to_datetime_value(DateCell(r)).k = "null" \/ clean_value(AmountCell(r)).k = "null"

Failed(msg) == first = [ok |-> FALSE, error |-> msg, df |-> EmptyFrame, summary |-> NoSummary]

Refused == ~validate_csv_structure(raw).ok /\ validate_csv_structure(raw).msg # ""

\* C16 as stated: whatever the table, an unresolved date or amount
\* role is named by the error
C16_UnresolvedRoleNamed ==
    ipc # "start" =>
        /\ ~DateResolved => (Failed("ValueError: Could not identify date column") /\ Refused)
        /\ (DateResolved /\ ~AmountResolved) =>
              (Failed("ValueError: Could not identify amount column") /\ Refused)
        /\ (_is_safe_csv(raw).ok /\ DateResolved /\ AmountResolved) =>
              (first.ok \/ Failed("KeyError: amount"))

\* C16: for a table that passes the safety validator, an unresolved date role
\* makes parse_and_clean_csv fail with an error naming the date column, and an
\* unresolved amount role (the date being resolved) with an error naming the
\* amount column; a table that fails the safety validator fails with the
\* security error whatever its roles.  In each case no table or summary is
\* returned and validate_csv_structure returns false with a reason.  With the
\* date and the amount resolved the call returns, whether or not a merchant
\* column is resolved, unless the renaming left no amount column.
C16_UnresolvedRoleFails ==
    ipc # "start" =>
        /\ (_is_safe_csv(raw).ok /\ ~DateResolved) =>
              (Failed("ValueError: Could not identify date column") /\ Refused)
        /\ (_is_safe_csv(raw).ok /\ DateResolved /\ ~AmountResolved) =>
              (Failed("ValueError: Could not identify amount column") /\ Refused)
        /\ ~_is_safe_csv(raw).ok => (Failed("ValueError: Security validation failed") /\ Refused)
        /\ (_is_safe_csv(raw).ok /\ DateResolved /\ AmountResolved) =>
              (first.ok \/ Failed("KeyError: amount"))

\* a table with a date and an amount but no merchant column has been returned,
\* every row under the placeholder
C16_NoMerchantReturned ==
    /\ ipc = "parsed"
    /\ raw.cols = BareCols
    /\ first.ok
    /\ Len(first.df.rows) = 2
    /\ \A r \in 1..2 : Column(first.df, <<"m","e","r","c","h","a","n","t">>)[r] = StrCell(<<"u","n","k","n","o","w","n","_","m","e","r","c","h","a","n","t">>)

\* a table with rows and no amount column has been refused for its amount
C16_Witness ==
    /\ ipc = "parsed"
    /\ raw.cols = NoAmountCols
    /\ Failed("ValueError: Could not identify amount column")

\* no header of the uploaded table is taken as the merchant column
NoMerchantColumn ==
    ~_infer_merchant_column(Renamed(Prepared, _infer_date_column(Prepared).col,
                                    _infer_amount_column(Prepared).col)).found

\* a merchant cell that is missing, empty or only spaces
Blank(v) == v.k = "null" \/ (v.k = "str" /\ \A i \in 1..Len(v.s) : v.s[i] = " ")

\* the returned rows of uploaded row r, whose date is in column 1 and whose amount
\* is in column 3
ReturnedOf(r) ==
    {o \in 1..Len(first.df.rows) :
        /\ Column(first.df, <<"d","a","t","e">>)[o] = to_datetime_value(raw.rows[r][1])
        /\ Column(first.df, <<"a","m","o","u","n","t">>)[o] = clean_value(raw.rows[r][3])}

\* C17: in every returned table the merchant of every row is a non-empty string
\* with no space at either end and no upper-case letter; the rows of a missing,
\* empty or whitespace-only merchant, and all rows of a table with no merchant
\* column, carry unknown_merchant.
C17_MerchantClean ==
    (ipc # "start" /\ first.ok) =>
        /\ \A o \in 1..Len(first.df.rows) :
              /\ Column(first.df, <<"m","e","r","c","h","a","n","t">>)[o].k = "str"
              /\ Column(first.df, <<"m","e","r","c","h","a","n","t">>)[o].s # <<>>
              /\ Column(first.df, <<"m","e","r","c","h","a","n","t">>)[o].s[1] # " "
              /\ Column(first.df, <<"m","e","r","c","h","a","n","t">>)[o].s[Len(Column(first.df, <<"m","e","r","c","h","a","n","t">>)[o].s)] # " "
              /\ \A i \in 1..Len(Column(first.df, <<"m","e","r","c","h","a","n","t">>)[o].s) :
                    IndexOf(Column(first.df, <<"m","e","r","c","h","a","n","t">>)[o].s[i], UpperChars) = 0
              /\ NoMerchantColumn => Column(first.df, <<"m","e","r","c","h","a","n","t">>)[o] = StrCell(<<"u","n","k","n","o","w","n","_","m","e","r","c","h","a","n","t">>)
        /\ raw.cols = PlainCols =>
              \A r \in 1..Len(raw.rows) :
                  Blank(raw.rows[r][2]) =>
                      \A o \in ReturnedOf(r) :
                          Column(first.df, <<"m","e","r","c","h","a","n","t">>)[o] = StrCell(<<"u","n","k","n","o","w","n","_","m","e","r","c","h","a","n","t">>)

\* a row with no merchant and a row with an empty one, both returned under the
\* placeholder
C17_Witness ==
    /\ ipc = "parsed"
    /\ first.ok
    /\ raw.cols = PlainCols
    /\ Len(raw.rows) = 2
    /\ raw.rows[1][2] = Null
    /\ raw.rows[2][2] = StrCell(<<>>)
    /\ Len(first.df.rows) = 2
    /\ \A o \in 1..2 : Column(first.df, <<"m","e","r","c","h","a","n","t">>)[o] = StrCell(<<"u","n","k","n","o","w","n","_","m","e","r","c","h","a","n","t">>)

\* a table with no merchant column, two rows returned under the placeholder
C17_NoColumn ==
    /\ ipc = "parsed"
    /\ first.ok
    /\ NoMerchantColumn
    /\ Len(first.df.rows) = 2

\* C18: in every returned table the amount of every row is a finite number.
C18_AmountsFinite ==
    (ipc # "start" /\ first.ok) =>
        \A o \in 1..Len(first.df.rows) : Column(first.df, <<"a","m","o","u","n","t">>)[o].k = "num"

\* a row whose amount reads inf has been returned with an infinite amount, and
\* the total of the summary is infinite
C18_InfiniteKept ==
    /\ ipc = "parsed"
    /\ first.ok
    /\ \E r \in 1..Len(raw.rows) : raw.rows[r][2] = InfCell(1)
    /\ \E o \in 1..Len(first.df.rows) : Column(first.df, <<"a","m","o","u","n","t">>)[o] = InfCell(1)
    /\ first.summary.total_amount = InfCell(1)

\* this step called save_vector_store and the call raised
SaveRaised == last_save' # last_save /\ last_save'.called /\ last_save'.raised

C19_LeftOverKept ==
    /\ last_save.called
    /\ last_save.error = "RuntimeError: No vector store to save."
    /\ tmp = Partial

C20_RaisedUntouched ==
    /\ result.status = "raised"
    /\ Len(df_clean.rows) = 2
    /\ df_clean = first.df
    /\ summary = first.summary

(***************************************************************************)
(* The resolved columns (SpecIngest).                                      *)
(***************************************************************************)
\* C21: whenever the date and the amount role of a table are both resolved,
\* they are resolved to different columns, also when the date column was found
\* by its content under a header that is no alias.
C21_AmountIsNotDateColumn ==
    (ipc # "start" /\ DateResolved /\ AmountResolved) =>
        _infer_amount_column(Prepared).col # _infer_date_column(Prepared).col

\* a table of month-first dates under Txn Date: the column is taken for the date
\* and for the amount, validation accepts the table, and parse_and_clean_csv
\* raised for the amount column that the renaming did not make
C21_DateTakenAsAmount ==
    /\ ipc = "parsed"
    /\ raw.cols = TxnCols
    /\ _infer_date_column(Prepared) = [found |-> TRUE, col |-> <<"t","x","n","_","d","a","t","e">>]
    /\ _infer_amount_column(Prepared) = [found |-> TRUE, col |-> <<"t","x","n","_","d","a","t","e">>]
    /\ validate_csv_structure(raw).ok
    /\ Failed("KeyError: amount")

\* C24: for every table that validate_csv_structure accepts, parse_and_clean_csv
\* returns a table and a summary and raises nothing.
C24_ValidatedTableParses ==
    (ipc # "start" /\ validate_csv_structure(raw).ok) => first.ok

\* a table that validate_csv_structure accepts, on which parse_and_clean_csv
\* raised and returned nothing
C24_ValidatedTableRaised ==
    /\ ipc = "parsed"
    /\ validate_csv_structure(raw) = [ok |-> TRUE, msg |-> ""]
    /\ ~first.ok
    /\ first.error = "KeyError: amount"
    /\ Len(raw.rows) = 2

(***************************************************************************)
(* Properties of create_embeddings (SpecIndex).                            *)
(***************************************************************************)
\* the least k with k * size >= n
Ceil(n, size) == CHOOSE k \in 0..n : k * size >= n /\ \A j \in 0..(k - 1) : j * size < n

\* one document for each of the m records after the first done, in their order
DocsOf(done, m) ==
    [j \in 1..m |-> Document(_make_text_for_embedding(data[done + j]), _make_metadata(data[done + j]))]

\* the records left after done of them, at most batch_size
NextBatchLen(done) == IF Len(data) - done < batch_size THEN Len(data) - done ELSE batch_size

\* C22: create_embeddings returns after ceil(n / batch_size) batches; a batch
\* adds to the documents the index holds, after them and in input order, one
\* document for each of the next records, at least one and at most batch_size
\* of them, and nothing else changes the index; with no record the index is
\* left as it is.
C22_IndexGrowsByBatches ==
    /\ [](xpc \in {"created", "saved"} => batch_i = Ceil(Len(data), batch_size))
    /\ [][/\ xpc # "embedding" => vector_store' = vector_store
          /\ (xpc = "embedding" /\ vector_store' # vector_store) =>
                /\ NextBatchLen(batch_i * batch_size) >= 1
                /\ vector_store'.init
                /\ vector_store'.docs
                     = vector_store.docs
                       \o DocsOf(batch_i * batch_size, NextBatchLen(batch_i * batch_size))
          /\ (xpc = "embedding" /\ xpc' # "raised") =>
                (batch_i' = batch_i + 1 /\ vector_store' # vector_store)]_vars

\* three records in batches of two, added to an index of two documents: two
\* batches, five documents, the three new ones last
C22_Witness ==
    /\ xpc = "created"
    /\ Len(data) = 3
    /\ batch_size = 2
    /\ batch_i = 2
    /\ Len(vector_store.docs) = 5
    /\ SubSeq(vector_store.docs, 1, 2) = ForeignDocs
    /\ SubSeq(vector_store.docs, 3, 5) = DocsOf(0, 3)

(***************************************************************************)
(* SpecUpload: the upload handler of app.py (lines 215-257) from the       *)
(* uploaded table on, the batches and the save it goes through, and the    *)
(* questions asked once it has ended.                                      *)
(***************************************************************************)
\* the uploads shorter than the longest of the session tables
UploadTables == {t \in SessionTables : Len(t.rows) < MaxRows}

InitUpload ==
    /\ raw \in UploadTables
    /\ first = NotRun
    /\ second = NotRun
    /\ ipc = "start"
    /\ SessionIdle
    /\ vector_store = NoStore
    /\ data = <<>>
    /\ batch_size = 1
    /\ persist_path = FALSE
    /\ batch_i = 0
    /\ xpc = "idle"
    /\ canon \in {Absent, Complete(ForeignDocs)}
    /\ tmp = Absent
    /\ last_save = NoSave

\* lines 215-249: the table that passed validate_csv_structure is parsed; a parse
\* that raises stops the script (lines 228-230), otherwise the session is marked
\* processed (line 234) and then os.makedirs(base_dir) raises (line 242) or
\* create_embeddings is called on the records of the cleaned table
ProcessUpload ==
    /\ ipc = "start"
    /\ ~processed
    /\ validate_csv_structure(raw).ok
    /\ first' = parse_and_clean_csv(raw)
    /\ ipc' = "parsed"
    /\ IF first'.ok
       THEN /\ processed' = TRUE
            /\ df_clean' = first'.df
            /\ summary' = first'.summary
            /\ \/ /\ xpc' = "raised"
                  /\ UNCHANGED <<data, batch_size, persist_path>>
               \/ /\ data' = to_dict_records(first'.df)
                  /\ batch_size' = AppBatchSize
                  /\ persist_path' = TRUE
                  /\ xpc' = Called(data')
       ELSE UNCHANGED <<processed, df_clean, summary, data, batch_size, persist_path, xpc>>
    /\ UNCHANGED <<raw, second, question, result, vector_store, batch_i, canon, tmp, last_save>>

\* the question form, shown once the upload handler has ended
AskProcessed ==
    /\ xpc \in {"saved", "raised"}
    /\ Ask

NextUpload == ProcessUpload \/ EmbedBatch \/ FinalSave \/ AskProcessed

SpecUpload == InitUpload /\ [][NextUpload]_vars

\* C23: once the upload handler has ended with the session marked processed, the
\* vector store of the session's embedding manager is initialized, and a narrow
\* question asked of the session does not end in 'Vector store not initialized'.
C23_ProcessedHasIndex ==
    /\ (processed /\ xpc \in {"saved", "raised"} /\ result.status = "none") => vector_store.init
    /\ (processed /\ result.status # "none" /\ ~_is_broad_query(question)) =>
           result.error # "RuntimeError: Vector store not initialized"

\* a table whose only row has an unparseable date: nothing to embed, no store
\* to save, and the narrow question is refused
C23_EmptyTableNotInitialized ==
    /\ processed
    /\ Len(raw.rows) = 1
    /\ df_clean.rows = <<>>
    /\ xpc = "raised"
    /\ last_save.error = "RuntimeError: No vector store to save."
    /\ ~vector_store.init
    /\ question = <<"H","o","w"," ","m","u","c","h"," ","a","t"," ","S","t","a","r","b","u","c","k","s","?">>
    /\ result.status = "raised"
    /\ result.error = "RuntimeError: Vector store not initialized"

\* the first batch failed to embed: the session is processed and has no store
C23_EmbeddingFailedNotInitialized ==
    /\ processed
    /\ Len(data) > 0
    /\ xpc = "raised"
    /\ batch_i = 0
    /\ ~vector_store.init
    /\ result.status = "none"

====
